---- MODULE Spec2Model ----
(***************************************************************************)
(* Model of the isolated MCP client of mcp-chatbot                         *)
(* (src/mcp-chatbot/src/core/isolated_mcp_client.py) and of the agent      *)
(* that uses it (src/mcp-chatbot/src/core/agent.py).                       *)
(*                                                                         *)
(* Caller threads invoke the public, synchronous methods (initialize,      *)
(* call_tool, cleanup).  Each of them submits a coroutine to the isolated  *)
(* event loop with run_coroutine_threadsafe and blocks on the future for   *)
(* at most 60 seconds.  The coroutines run on the loop thread, one step    *)
(* (the code between two suspension points) at a time.  A tool server is   *)
(* a subprocess that is reached through its stdin (transport buffer +      *)
(* pipe) and stdout (StreamReader buffer); what the subprocess answers,    *)
(* and when, is the environment's choice.                                  *)
(*                                                                         *)
(* Time is a clock in whole seconds (time.time() truncated by int()).      *)
(* Computation takes no time: the clock advances only when the loop has    *)
(* nothing to run, and it never jumps over an armed deadline.              *)
(*                                                                         *)
(* The agent runs on one caller thread, one message at a time: its         *)
(* process_message analyses the intent, repairs the arguments of each      *)
(* tool call, calls the tool through the client, generates the answer and  *)
(* appends the turn to the history.  What Bedrock answers is the           *)
(* environment's choice.                                                   *)
(*                                                                         *)
(* The bridge (src/mcp-chatbot/src/core/async_handler.py) runs a           *)
(* process_message for a synchronous caller: on a worker of its executor   *)
(* when a loop runs on the caller's thread, on the caller's thread         *)
(* otherwise.  The executor has two workers, so that two process_message   *)
(* of one agent can be under way; the model follows one of them and keeps  *)
(* the locals of the other.                                                *)
(***************************************************************************)
EXTENDS Integers, Sequences, FiniteSets, TLC

\* ---------------------------------------------------------------- bounds
MaxCalls == 2        \* call_tool invocations in one behaviour
MaxWrites == 3       \* call_tool invocations where only the stdin matters
MaxInits == 1        \* initialize invocations that start a loop thread
MaxCleanups == 1     \* cleanup invocations that pass the initialized check
MaxNotifs == 1       \* notification lines one subprocess emits
MaxTools == 2        \* tool definitions in one tools/list response
PipeCap == 3         \* chunks the stdin pipe of a subprocess holds
LineParts == 2       \* chunks one request line is made of
MaxMessages == 2     \* process_message invocations in one behaviour
MaxToolCalls == 2    \* entries of the tool_calls list of one intent
MaxArgValues == 2    \* distinct values an argument can have
MaxStarts == 2       \* initialize invocations where a retry matters
MaxRepairs == 2      \* applications of the argument repair in a row

\* ------------------------------------------------------ program constants
RunInLoopTimeout == 60     \* future.result(timeout=60)
StartupSleep == 3          \* await asyncio.sleep(3) after the spawn
InitializedSleep == 1      \* await asyncio.sleep(1) after the notification
HandshakeTimeout == 15     \* wait_for(readline, 15) of the initialize reply
ToolsListTimeout == 15     \* wait_for(readline, 15) of the tools/list reply
CallTimeout == 30          \* wait_for(readline, 30) of the tools/call reply
NotificationTimeout == 10  \* wait_for(readline, 10) after a notification
LoopStartSleep == 1        \* time.sleep(1) in initialize
TerminateTimeout == 2      \* wait_for(process.wait(), 2) in _async_cleanup
JoinTimeout == 5           \* self._loop_thread.join(timeout=5)
RunAsyncTimeout == 60      \* run_async(coro, timeout=60)
InitializeId == 1          \* "id": 1 of the initialize request
ToolsListId == 2           \* "id": 2 of the tools/list request

\* ----------------------------------------------------------------- inputs
Threads == {"t1", "t2"}
\* the enabled servers whose command is "uvx", in the order of the config
Configs == {<< >>, <<"s1">>, <<"s1", "s2">>}

\* the identities of coroutines, subprocesses and loop threads
TaskIds == 1..(MaxCalls + MaxWrites + MaxInits + MaxCleanups)
ProcIds == 1..(2 * MaxInits)
LoopIds == 1..MaxInits
NoTimer == -1
NoTask == 0
NoProc == 0

\* f"{server_name}:{tool.name}"
QualifiedName(server, name) == <<server, ":", name>>

\* no qualified name
NoKey == QualifiedName("", "")

\* the tool names a caller may ask for: catalog entries and a stranger
CallNames == {QualifiedName("s1", "ta"), QualifiedName("zz", "ta")}

\* arguments a caller passes: JSON-serializable or not
CallArgs == {"json", "unserializable"}

Min2(a, b) == IF a <= b THEN a ELSE b

SetMin(S) == CHOOSE x \in S : \A y \in S : x <= y

\* --------------------------------------------------------- protocol lines
\* A request line written to the stdin of a subprocess.
Request(task, id, method) == [task |-> task, id |-> id, method |-> method]

\* The chunks in which one request line reaches the transport.
RequestChunks(req) == [k \in 1..LineParts |-> [line |-> req, part |-> k]]

\* A line some subprocess puts on its stdout.  kind says what json.loads
\* makes of it; id and payload echo the request a response answers.
Line(kind, id, payload, level, data, tools) ==
  [kind |-> kind, id |-> id, payload |-> payload, level |-> level,
   data |-> data, tools |-> tools]

\* a line without an id, as the notifications are
NoId == 0

\* an inputSchema: whether it is there with a properties field, the keys of
\* properties and the required list
Schema(declared, properties, required) ==
  [declared |-> declared, properties |-> properties, required |-> required]

\* tool_data.get("inputSchema", {}) of a definition without the field
NoSchema == Schema(FALSE, {}, {})

\* a tool definition of a tools/list result
ToolDef(name, description, schema) ==
  [name |-> name, description |-> description, inputSchema |-> schema]

\* tool definitions of a tools/list result: a name (or none) and whether
\* the description field is there
ToolDefs ==
  {ToolDef("ta", TRUE, NoSchema),
   ToolDef("tb", FALSE, NoSchema),
   ToolDef("", TRUE, NoSchema)}

RECURSIVE SeqsUpTo(_, _)
SeqsUpTo(S, n) ==
  IF n = 0 THEN {<< >>}
  ELSE LET shorter == SeqsUpTo(S, n - 1)
       IN shorter \cup {Append(q, x) : q \in {r \in shorter : Len(r) = n - 1}, x \in S}

ToolLists == SeqsUpTo(ToolDefs, MaxTools)

\* the shapes a reply to a request can have: an object with a result
\* field, with an error object, with an error that is a string, with
\* neither field, a line that is not JSON, and JSON that is not an object
ReplyKinds == {"result", "error", "errorstr", "neither", "garbage", "scalar"}

\* replies of the kinds K to a request req; a tools/list result may carry
\* a list of tool definitions
RepliesTo(req, K) ==
  {Line(k, req.id, req.task, "", "", <<"none">>) : k \in K}
    \cup IF req.method = "tools/list"
           THEN {Line("result", req.id, req.task, "", "", <<"tools", tl>>) :
                   tl \in ToolLists}
           ELSE {}

\* notifications: method notifications/message with a level (error, info)
\* or without, the data of an error-level one plain or a validation
\* report, and a notification of another method
Notifications ==
  {Line("notification", NoId, NoTask, "error", "plain", <<"none">>),
   Line("notification", NoId, NoTask, "error", "validation", <<"none">>),
   Line("notification", NoId, NoTask, "info", "plain", <<"none">>),
   Line("notification", NoId, NoTask, "none", "plain", <<"none">>),
   Line("othernotification", NoId, NoTask, "none", "plain", <<"none">>)}


\* ------------------------------------------------- inputs of the agent
\* the tools the agent knows by name
CallAws == QualifiedName("aws-api", "call_aws")
SuggestAws == QualifiedName("aws-api", "suggest_aws_commands")
SearchDocs == QualifiedName("aws-docs", "search_documentation")

\* keys and values of the arguments of a tool call
ArgKeys == {"command", "cli_command", "query", "search", "search_phrase",
            "region"}
ArgValues == 1..MaxArgValues

\* the argument maps: dicts from some keys to values
ArgumentMaps == UNION {[K -> ArgValues] : K \in SUBSET ArgKeys}

\* the value of the "arguments" field of a tool_calls entry: a dict, JSON
\* null, or no field at all
Arguments(kind, map) == [kind |-> kind, map |-> map]
ArgMap(map) == Arguments("map", map)
NullArguments == Arguments("null", << >>)
NoArguments == Arguments("missing", << >>)

\* {"k": v}
OneArg(k, v) == [x \in {k} |-> v]

\* an entry of tool_calls; an entry without the "name" field has NoKey
ToolCall(name, arguments) == [name |-> name, arguments |-> arguments]

\* the entries the model puts in tool_calls
ToolCallEntries ==
  {ToolCall(CallAws, ArgMap(OneArg("cli_command", 1))),
   ToolCall(CallAws, ArgMap(OneArg("command", 1))),
   ToolCall(CallAws, NullArguments),
   ToolCall(SuggestAws, NoArguments),
   ToolCall(QualifiedName("zz", "ta"), ArgMap(OneArg("region", 1))),
   ToolCall(NoKey, ArgMap(OneArg("cli_command", 1)))}

\* what json.loads makes of the text the model gave for the intent:
\* needs_tools and tool_calls, which is a list, is not there, or is
\* something without a length
Intent(needs_tools, shape, tool_calls) ==
  [needs_tools |-> needs_tools, shape |-> shape, tool_calls |-> tool_calls]

Intents ==
  {Intent(TRUE, "list", tc) : tc \in SeqsUpTo(ToolCallEntries, MaxToolCalls)}
    \cup {Intent(FALSE, "list", <<ToolCall(CallAws, ArgMap(OneArg("cli_command", 1)))>>),
          Intent(FALSE, "missing", << >>),
          Intent(TRUE, "missing", << >>),
          Intent(TRUE, "null", << >>)}

\* how the Bedrock call of _analyze_intent ends: the text has a JSON
\* object, has none, has braces around something that does not parse, or
\* the call raises
IntentReplies == {"object", "nojson", "badjson", "raises"}

\* str(e) of the exceptions the AWS session and Bedrock raise
ExcTexts ==
  {"Unable to locate credentials", "ValidationException",
   "ThrottlingException", "asyncio", "EndpointConnectionError"}

\* the user's texts; texts are numbered, and these are no argument values
UserMessages == {MaxArgValues + 1, MaxArgValues + 2}

\* the servers and the tools/list results the agent is run with
AwsApi == <<"aws-api">>

AwsToolLists ==
  {<<ToolDef("call_aws", TRUE, Schema(TRUE, {"cli_command"}, {"cli_command"})),
     ToolDef("suggest_aws_commands", TRUE, Schema(TRUE, {"query"}, {"query"}))>>,
   <<ToolDef("call_aws", TRUE, NoSchema)>>}

\* ------------------------------------------------------------------ state
VARIABLES
  now,          \* time.time(), in seconds
  config,       \* config.get_enabled_servers(), the "uvx" ones, in order
  initialized,  \* self._initialized
  loops,        \* the loop threads started so far and the state of each
  curLoop,      \* self._loop: the loop the last started thread created
  tools,        \* self.tools: qualified name -> MCPTool
  server_data,  \* self._server_data: insertion-ordered server -> process
  procs,        \* the subprocesses spawned so far
  tasks,        \* the coroutines submitted to a loop, with their futures
  threads,      \* the caller threads and where each is in its method
  used,         \* how many of each public method have been invoked
  agent,        \* the SimpleAgent that owns the client (core/agent.py)
  handler       \* the StreamlitAsyncHandler (core/async_handler.py)

vars == <<now, config, initialized, loops, curLoop, tools,
          server_data, procs, tasks, threads, used, agent, handler>>

\* a value a coroutine returns, a future holds or a method gives back
Val(kind, msg, payload, id) ==
  [kind |-> kind, msg |-> msg, payload |-> payload, id |-> id]

Pending == Val("pending", "", NoTask, NoId)
Error(msg) == Val("error", msg, NoTask, NoId)
Raised(msg) == Val("exc", msg, NoTask, NoId)
Returned == Val("none", "", NoTask, NoId)

NoReq == Request(NoTask, NoId, "none")

\* a coroutine scheduled on loop l; seen records the lines it has read and
\* fed whether its subprocess put a line on stdout since its request was
\* written
NewTask(kind, l, tool, args) ==
  [kind |-> kind, loop |-> l, pc |-> "start", timer |-> NoTimer,
   proc |-> NoProc, tool |-> tool, args |-> args, idx |-> 1, dlen |-> 0,
   req |-> NoReq, seen |-> << >>, fed |-> FALSE, fut |-> Pending]

\* a subprocess just spawned for server s by the coroutine task; hs records
\* how its handshake ended: the kind of the line taken as the response, or
\* what happened instead of a line (eof, timeout, busy, reset); ls records
\* the same of its tools/list exchange (ok and malformed for a line)
NewProc(s, task) ==
  [server |-> s, out |-> << >>, eof |-> FALSE, wbuf |-> << >>,
   pipe |-> << >>, waiter |-> NoTask, notifs |-> 0,
   stdinClosed |-> FALSE, termed |-> FALSE,
   task |-> task, hs |-> "none", ls |-> "none"]

\* a caller thread outside the client; meth and ret are the public method
\* that returned last and what it gave back
IdleThread == [pc |-> "idle", task |-> NoTask, timer |-> NoTimer,
               meth |-> "none", ret |-> Val("idle", "", NoTask, NoId)]

\* what a public method of the agent gave back: op is the method, kind
\* says whether it returned None, returned a reply, returned one of the
\* fallback messages of process_message, or raised
AgentVal(op, kind, text) == [op |-> op, kind |-> kind, text |-> text]

NoIntent == Intent(FALSE, "missing", << >>)

\* the locals of a process_message that has not begun: reply is how the
\* Bedrock call of the intent analysis ended, invoked lists the call_tool
\* invocations of the message that have returned, calls0 is the number of
\* call_tool invocations before the message and events lists, in order,
\* the requests to Bedrock and the call_tool invocations that returned
\* during the message
NewRun ==
  [op |-> "none", pc |-> "idle", user_message |-> 0,
   reply |-> "none", intent |-> NoIntent, k |-> 0, tool_results |-> << >>,
   fixed |-> NoArguments, result |-> Pending, invoked |-> << >>,
   calls0 |-> 0, events |-> << >>, ret |-> AgentVal("none", "idle", "")]

\* SimpleAgent.__init__: the fields of the agent, with the locals of the
\* process_message the model follows (those of NewRun) and, in other, the
\* locals of a process_message that runs on another worker thread;
\* messages counts the process_message invocations
NewAgent ==
  [initialized |-> FALSE, bedrock_client |-> FALSE,
   conversation_history |-> << >>, last_tool_calls |-> << >>,
   op |-> "none", pc |-> "idle", user_message |-> 0,
   reply |-> "none", intent |-> NoIntent, k |-> 0, tool_results |-> << >>,
   fixed |-> NoArguments, result |-> Pending, invoked |-> << >>,
   calls0 |-> 0, events |-> << >>, messages |-> 0,
   ret |-> AgentVal("none", "idle", ""), other |-> NewRun]

\* StreamlitAsyncHandler.__init__: no executor; pc says where the caller of
\* run_async is, running whether a loop runs on the caller's thread,
\* deadline when the timeout it passed is over, handed how many coroutines
\* were handed over to be run, pooled how many of them to the executor,
\* and ret what run_async gave back last
NewHandler ==
  [executor |-> FALSE, pc |-> "idle", running |-> FALSE, timer |-> NoTimer,
   deadline |-> NoTimer, handed |-> 0, pooled |-> 0, ret |-> "none"]

\* the client and the agent as their constructors leave them
Constructed ==
  /\ now = 0
  /\ initialized = FALSE
  /\ loops = << >>
  /\ curLoop = 0
  /\ tools = << >>
  /\ server_data = << >>
  /\ procs = << >>
  /\ tasks = << >>
  /\ threads = [t \in Threads |-> IdleThread]
  /\ used = [calls |-> 0, inits |-> 0, cleanups |-> 0]
  /\ agent = NewAgent
  /\ handler = NewHandler

Init == Constructed /\ config \in Configs

\* ------------------------------------------------------------ dictionaries
\* dict[k] = v
Put(f, k, v) == [x \in DOMAIN f \cup {k} |-> IF x = k THEN v ELSE f[x]]

\* name in self._server_data
HasServer(sd, name) == \E j \in 1..Len(sd) : sd[j].server = name

\* self._server_data[name]['process']
ServerProc(sd, name) ==
  sd[CHOOSE j \in 1..Len(sd) : sd[j].server = name].proc

\* self._server_data[name] = {'process': p, 'initialized': True}
PutServer(sd, name, p) ==
  IF HasServer(sd, name)
    THEN [j \in 1..Len(sd) |->
            IF sd[j].server = name THEN [server |-> name, proc |-> p] ELSE sd[j]]
    ELSE Append(sd, [server |-> name, proc |-> p])

\* ------------------------------------------------------- stdin of a process
\* TransportWrite that goes to the pipe past the transport buffer: the
\* bytes that fit are written at once whatever the buffer holds
WriteThrough(proc, req) ==
  LET data == RequestChunks(req)
      k == Min2(Len(data), PipeCap - Len(proc.pipe))
  IN [proc EXCEPT !.pipe = @ \o SubSeq(data, 1, k),
                  !.wbuf = @ \o SubSeq(data, k + 1, Len(data))]

\* process.stdin.write(data): with an empty transport buffer the bytes that
\* fit go to the pipe at once and the rest is buffered; with a non-empty
\* buffer everything is appended to it.
TransportWrite(proc, req) ==
  LET data == RequestChunks(req)
      free == PipeCap - Len(proc.pipe)
      k == IF proc.wbuf = << >> THEN Min2(Len(data), free) ELSE 0
  IN [proc EXCEPT !.pipe = @ \o SubSeq(data, 1, k),
                  !.wbuf = @ \o SubSeq(data, k + 1, Len(data))]

\* what the subprocess has still to read: the pipe, then what the transport
\* holds
StdinStream(proc) == proc.pipe \o proc.wbuf

\* process.stdin.write and drain raise ConnectionResetError: stdin was
\* closed, or the subprocess exited and the loop has noticed (lost)
SendFails(proc, lost) == proc.stdinClosed \/ (proc.eof /\ lost)

\* a complete request line is at the head of the pipe
LineAtHead(proc) ==
  /\ Len(proc.pipe) >= LineParts
  /\ \A k \in 1..LineParts :
       proc.pipe[k].part = k /\ proc.pipe[k].line = proc.pipe[1].line

\* ------------------------------------------------------ stdout of a process
\* what process.stdout.readline() does when it is called: a buffered line
\* is returned at once, end of file gives b'', a second reader is refused
\* with RuntimeError, otherwise the caller becomes the waiter
ReadNow(proc) ==
  IF proc.out # << >> THEN "line"
  ELSE IF proc.eof THEN "eof"
  ELSE IF proc.waiter # NoTask THEN "busy"
  ELSE "wait"

\* ------------------------------------------------------------ coroutines
\* the loop thread of loop l is inside run_forever
LoopRuns(l) == l # 0 /\ loops[l] \in {"running", "stopping"}

\* loop l can run a callback: it is not in the middle of a step of a
\* coroutine (between the write of a request and the readline after it)
CanRun(l) ==
  /\ LoopRuns(l)
  /\ \A j \in DOMAIN tasks : tasks[j].loop = l => tasks[j].pc # "sent"

\* the coroutine returns (or raises): its future is resolved
Finish(task, val) == [task EXCEPT !.pc = "done", !.timer = NoTimer, !.fut = val]

Step(task, proc) == [task |-> task, proc |-> proc]

\* ---- _async_call_tool
\* the standard JSON-RPC branch: an error field, a result field or neither
StandardResponse(l) ==
  IF l.kind = "error"
    THEN Error(IF l.data = "parameters" THEN "Invalid parameters"
               ELSE "server message")
  ELSE IF l.kind = "errorstr" THEN Error("exception: AttributeError")
  ELSE IF l.kind = "result" THEN Val("result", "", l.payload, l.id)
  ELSE Error("Invalid response format")

\* the line read after a notification that carries no level
SecondLine(l) ==
  IF l.kind = "garbage" THEN Error("JSON decode error")
  ELSE IF l.kind = "scalar" THEN Error("exception: TypeError")
  ELSE StandardResponse(l)

\* a notifications/message line with params.level ends the call
LevelNotification(l) ==
  IF l.level = "error"
    THEN IF l.data = "validation" THEN Error("AWS CLI validation error")
         ELSE Error("Server error")
    ELSE Error("Server notification")

\* the second readline, up to 10 seconds
CallRead2(task, proc, i) ==
  LET r == ReadNow(proc)
  IN IF r = "line"
       THEN Step(Finish([task EXCEPT !.seen = Append(@, Head(proc.out))],
                        SecondLine(Head(proc.out))),
                 [proc EXCEPT !.out = Tail(@)])
     ELSE IF r = "eof"
       THEN Step(Finish(task, Error("No response after notification")), proc)
     ELSE IF r = "busy"
       THEN Step(Finish(task, Error("exception: RuntimeError")), proc)
     ELSE Step([task EXCEPT !.pc = "wait2", !.timer = now + NotificationTimeout],
               [proc EXCEPT !.waiter = i])

\* what the first line read leads to
FirstLine(task, proc, i, l) ==
  IF l.kind = "garbage" THEN Step(Finish(task, Error("JSON decode error")), proc)
  ELSE IF l.kind = "scalar" THEN Step(Finish(task, Error("exception: TypeError")), proc)
  ELSE IF l.kind = "notification"
    THEN IF l.level # "none"
           THEN Step(Finish(task, LevelNotification(l)), proc)
           ELSE CallRead2(task, proc, i)
  ELSE Step(Finish(task, StandardResponse(l)), proc)

\* the first readline, up to 30 seconds
CallRead1(task, proc, i) ==
  LET r == ReadNow(proc)
  IN IF r = "line"
       THEN FirstLine([task EXCEPT !.seen = Append(@, Head(proc.out))],
                      [proc EXCEPT !.out = Tail(@)], i, Head(proc.out))
     ELSE IF r = "eof"
       THEN Step(Finish(task, Error("No response from server")), proc)
     ELSE IF r = "busy"
       THEN Step(Finish(task, Error("exception: RuntimeError")), proc)
     ELSE Step([task EXCEPT !.pc = "wait1", !.timer = now + CallTimeout],
               [proc EXCEPT !.waiter = i])

\* tool_name in self.tools
ToolKnown(catalog, name) == name \in DOMAIN catalog

\* Resolve with the catalog check lost: a tool that is not in the catalog
\* goes to the first registered server
ResolveAnywhere(catalog, sd, name) ==
  IF sd = << >>
    THEN [ok |-> FALSE, proc |-> NoProc, val |-> Error("Server not available")]
    ELSE [ok |-> TRUE, val |-> Pending,
          proc |-> IF ToolKnown(catalog, name) /\ HasServer(sd, catalog[name].server)
                     THEN ServerProc(sd, catalog[name].server)
                     ELSE sd[1].proc]

\* where a call goes: the process of the server the catalog names for the
\* tool, or the error returned when the tool or its server is not there
Resolve(catalog, sd, name) ==
  IF ~ToolKnown(catalog, name)
    THEN [ok |-> FALSE, proc |-> NoProc, val |-> Error("Tool not found")]
  ELSE IF ~HasServer(sd, catalog[name].server)
    THEN [ok |-> FALSE, proc |-> NoProc, val |-> Error("Server not available")]
  ELSE [ok |-> TRUE, proc |-> ServerProc(sd, catalog[name].server),
        val |-> Pending]

\* "id": int(time.time())
FreshId(clock) == clock

\* from the entry of _async_call_tool to the write of the request: drain
\* does not suspend, the transport buffer stays below its high-water mark
CallStart(i, lost) ==
  LET task == tasks[i]
  IN /\ i \in DOMAIN tasks
     /\ task.kind = "call" /\ task.pc = "start" /\ CanRun(task.loop)
     /\ IF task.args = "unserializable"
          THEN /\ tasks' = [tasks EXCEPT ![i] = Finish(task, Raised("TypeError"))]
               /\ procs' = procs
        ELSE IF ~Resolve(tools, server_data, task.tool).ok
          THEN /\ tasks' = [tasks EXCEPT ![i] =
                              Finish(task, Resolve(tools, server_data, task.tool).val)]
               /\ procs' = procs
        ELSE LET p == Resolve(tools, server_data, task.tool).proc
                 req == Request(i, FreshId(now), "tools/call")
                 sent == [task EXCEPT !.proc = p, !.req = req]
             IN IF SendFails(procs[p], lost)
                  THEN /\ tasks' = [tasks EXCEPT ![i] =
                                      Finish([task EXCEPT !.proc = p],
                                             Error("exception: ConnectionResetError"))]
                       /\ procs' = procs
                  ELSE /\ tasks' = [tasks EXCEPT ![i] = [sent EXCEPT !.pc = "sent"]]
                       /\ procs' = [procs EXCEPT ![p] = TransportWrite(procs[p], req)]
     /\ UNCHANGED <<handler, agent, now, config, initialized, loops, curLoop, tools,
                    server_data, threads, used>>

\* the request is written: the call of readline, up to the first suspension
CallSent(i) ==
  LET task == tasks[i]
      p == task.proc
  IN /\ i \in DOMAIN tasks
     /\ task.kind = "call" /\ task.pc = "sent" /\ LoopRuns(task.loop)
     /\ LET st == CallRead1(task, procs[p], i)
        IN /\ tasks' = [tasks EXCEPT ![i] = st.task]
           /\ procs' = [procs EXCEPT ![p] = st.proc]
     /\ UNCHANGED <<handler, agent, now, config, initialized, loops, curLoop, tools,
                    server_data, threads, used>>

\* data (or end of file) reaches a coroutine suspended in readline
CallWake(i) ==
  LET task == tasks[i]
      p == task.proc
  IN /\ i \in DOMAIN tasks
     /\ task.kind = "call" /\ task.pc \in {"wait1", "wait2"} /\ CanRun(task.loop)
     /\ procs[p].out # << >> \/ procs[p].eof
     /\ LET t0 == [task EXCEPT !.timer = NoTimer]
            p0 == [procs[p] EXCEPT !.waiter = NoTask]
            st == IF task.pc = "wait1" THEN CallRead1(t0, p0, i)
                  ELSE CallRead2(t0, p0, i)
        IN /\ tasks' = [tasks EXCEPT ![i] = st.task]
           /\ procs' = [procs EXCEPT ![p] = st.proc]
     /\ UNCHANGED <<handler, agent, now, config, initialized, loops, curLoop, tools,
                    server_data, threads, used>>

\* asyncio.TimeoutError of the first or of the second wait_for
CallTimedOut(pc) ==
  IF pc = "wait1" THEN Error("Tool call timeout")
  ELSE Error("Timeout waiting for response after notification")

\* CallExpire with the server dropped when its call timed out
CallExpireDrops(i) ==
  LET task == tasks[i]
      p == task.proc
  IN /\ i \in DOMAIN tasks
     /\ task.kind = "call" /\ task.pc \in {"wait1", "wait2"} /\ CanRun(task.loop)
     /\ now >= task.timer
     /\ tasks' = [tasks EXCEPT ![i] = Finish(task, CallTimedOut(task.pc))]
     /\ procs' = [procs EXCEPT ![p].waiter = NoTask]
     /\ server_data' = << >>
     /\ UNCHANGED <<handler, agent, now, config, initialized, loops, curLoop, tools,
                    threads, used>>

\* the wait_for of a readline is over: the except clause returns the error
CallExpire(i) ==
  LET task == tasks[i]
      p == task.proc
  IN /\ i \in DOMAIN tasks
     /\ task.kind = "call" /\ task.pc \in {"wait1", "wait2"} /\ CanRun(task.loop)
     /\ now >= task.timer
     /\ tasks' = [tasks EXCEPT ![i] = Finish(task, CallTimedOut(task.pc))]
     /\ procs' = [procs EXCEPT ![p].waiter = NoTask]
     /\ UNCHANGED <<handler, agent, now, config, initialized, loops, curLoop, tools,
                    server_data, threads, used>>

\* ---- _async_initialize and _async_initialize_server
\* the for loop over official_servers goes on with the next server
NextServer(task) ==
  IF task.idx < Len(config)
    THEN [task EXCEPT !.pc = "spawn", !.idx = @ + 1, !.timer = NoTimer,
                      !.proc = NoProc]
    ELSE Finish(task, Returned)

\* HandshakeOk without the check of the error field
HandshakeParsed(l) == l.kind \notin {"garbage", "scalar"}

\* the initialize response is accepted: it parsed to an object that has no
\* error field
HandshakeOk(l) == l.kind \notin {"garbage", "scalar", "error", "errorstr"}

\* MCPTool(...) for each tool definition in order; a definition without a
\* name or a description raises KeyError, which ends the loop
RECURSIVE AddTools(_, _, _, _)
AddTools(catalog, server, p, defs) ==
  IF defs = << >> THEN catalog
  ELSE LET d == Head(defs)
       IN IF d.name = "" \/ ~d.description THEN catalog
          ELSE AddTools(Put(catalog, QualifiedName(server, d.name),
                            [name |-> d.name, server |-> server, proc |-> p,
                             input_schema |-> d.inputSchema]),
                        server, p, Tail(defs))

\* the catalog after the tools/list response l of process p of server
RegisterTools(catalog, server, p, l) ==
  IF l.kind = "result" /\ l.tools[1] = "tools"
    THEN AddTools(catalog, server, p, l.tools[2])
    ELSE catalog

InitUnchanged == UNCHANGED <<handler, agent, now, config, initialized, loops, curLoop,
                             threads, used>>

\* official_servers empty: return; otherwise enter the for loop
InitBegin(i) ==
  LET task == tasks[i]
  IN /\ i \in DOMAIN tasks
     /\ task.kind = "init" /\ task.pc = "start" /\ CanRun(task.loop)
     /\ tasks' = [tasks EXCEPT ![i] =
                    IF config = << >> THEN Finish(task, Returned)
                    ELSE [task EXCEPT !.pc = "spawn"]]
     /\ UNCHANGED <<procs, tools, server_data>>
     /\ InitUnchanged

\* uvx lookup and create_subprocess_exec: either raises (found is FALSE) or
\* the subprocess runs and the coroutine sleeps 3 seconds
InitSpawn(i, found) ==
  LET task == tasks[i]
  IN /\ i \in DOMAIN tasks
     /\ task.kind = "init" /\ task.pc = "spawn" /\ CanRun(task.loop)
     /\ IF found
          THEN /\ procs' = Append(procs, NewProc(config[task.idx], i))
               /\ tasks' = [tasks EXCEPT ![i] =
                              [task EXCEPT !.pc = "sleep3",
                                           !.proc = Len(procs) + 1,
                                           !.timer = now + StartupSleep]]
          ELSE /\ procs' = procs
               /\ tasks' = [tasks EXCEPT ![i] = NextServer(task)]
     /\ UNCHANGED <<tools, server_data>>
     /\ InitUnchanged

\* the handshake ended without an accepted response: the exception leaves
\* _async_initialize_server and the for loop continues
HandshakeFailed(task, proc, ev) ==
  Step(NextServer(task), [proc EXCEPT !.hs = ev])

\* the response is in: on success the initialized notification is written
\* and the coroutine sleeps 1 second
HandshakeLine(task, proc, i, l, lost) ==
  IF ~HandshakeOk(l) THEN HandshakeFailed(task, proc, l.kind)
  ELSE IF SendFails(proc, lost) THEN HandshakeFailed(task, proc, "reset")
  ELSE Step([task EXCEPT !.pc = "sleep1", !.timer = now + InitializedSleep],
            [TransportWrite(proc, Request(i, NoId, "notifications/initialized"))
               EXCEPT !.hs = l.kind])

\* readline of the initialize response, up to 15 seconds
HandshakeRead(task, proc, i, lost) ==
  LET r == ReadNow(proc)
  IN IF r = "line"
       THEN HandshakeLine(task, [proc EXCEPT !.out = Tail(@)], i,
                          Head(proc.out), lost)
     ELSE IF r \in {"eof", "busy"}
       THEN HandshakeFailed(task, proc, r)
     ELSE Step([task EXCEPT !.pc = "hs_wait", !.timer = now + HandshakeTimeout],
               [proc EXCEPT !.waiter = i])

\* after the 3 seconds: write the initialize request and read the response
InitHandshake(i, lost) ==
  LET task == tasks[i]
      p == task.proc
  IN /\ i \in DOMAIN tasks
     /\ task.kind = "init" /\ task.pc = "sleep3" /\ CanRun(task.loop)
     /\ now >= task.timer
     /\ LET t0 == [task EXCEPT !.timer = NoTimer]
            st == IF SendFails(procs[p], lost)
                    THEN HandshakeFailed(t0, procs[p], "reset")
                    ELSE HandshakeRead(t0,
                           TransportWrite(procs[p],
                             Request(i, InitializeId, "initialize")), i, lost)
        IN /\ tasks' = [tasks EXCEPT ![i] = st.task]
           /\ procs' = [procs EXCEPT ![p] = st.proc]
     /\ UNCHANGED <<tools, server_data>>
     /\ InitUnchanged

InitHandshakeWake(i, lost) ==
  LET task == tasks[i]
      p == task.proc
  IN /\ i \in DOMAIN tasks
     /\ task.kind = "init" /\ task.pc = "hs_wait" /\ CanRun(task.loop)
     /\ procs[p].out # << >> \/ procs[p].eof
     /\ LET st == HandshakeRead([task EXCEPT !.timer = NoTimer],
                                [procs[p] EXCEPT !.waiter = NoTask], i, lost)
        IN /\ tasks' = [tasks EXCEPT ![i] = st.task]
           /\ procs' = [procs EXCEPT ![p] = st.proc]
     /\ UNCHANGED <<tools, server_data>>
     /\ InitUnchanged

InitHandshakeExpire(i) ==
  LET task == tasks[i]
      p == task.proc
  IN /\ i \in DOMAIN tasks
     /\ task.kind = "init" /\ task.pc = "hs_wait" /\ CanRun(task.loop)
     /\ now >= task.timer
     /\ LET st == HandshakeFailed(task, [procs[p] EXCEPT !.waiter = NoTask],
                                  "timeout")
        IN /\ tasks' = [tasks EXCEPT ![i] = st.task]
           /\ procs' = [procs EXCEPT ![p] = st.proc]
     /\ UNCHANGED <<tools, server_data>>
     /\ InitUnchanged

\* ---- _async_get_server_tools, then the end of _async_initialize_server
Listed(task, proc, catalog, sd) ==
  [task |-> task, proc |-> proc, tools |-> catalog, sd |-> sd]

\* _async_get_server_tools returned (it never raises): the server is stored
\* in _server_data and the for loop continues
ListDone(task, proc, catalog, ev) ==
  Listed(NextServer(task), [proc EXCEPT !.ls = ev], catalog,
         PutServer(server_data, proc.server, task.proc))

\* a tools/list response that is not a result with a list of tools, or one
\* of whose tool definitions lacks its name or its description
ToolsListMalformed(l) ==
  \/ l.kind # "result"
  \/ l.tools[1] # "tools"
  \/ \E k \in 1..Len(l.tools[2]) :
       l.tools[2][k].name = "" \/ ~l.tools[2][k].description

\* readline of the tools/list response, up to 15 seconds
ListRead(task, proc, i) ==
  LET r == ReadNow(proc)
  IN IF r = "line"
       THEN ListDone(task, [proc EXCEPT !.out = Tail(@)],
                     RegisterTools(tools, proc.server, task.proc, Head(proc.out)),
                     IF ToolsListMalformed(Head(proc.out)) THEN "malformed"
                     ELSE "ok")
     ELSE IF r \in {"eof", "busy"}
       THEN ListDone(task, proc, tools, r)
     ELSE Listed([task EXCEPT !.pc = "list_wait", !.timer = now + ToolsListTimeout],
                 [proc EXCEPT !.waiter = i], tools, server_data)

\* after the 1 second: write the tools/list request and read the response
InitList(i, lost) ==
  LET task == tasks[i]
      p == task.proc
  IN /\ i \in DOMAIN tasks
     /\ task.kind = "init" /\ task.pc = "sleep1" /\ CanRun(task.loop)
     /\ now >= task.timer
     /\ LET t0 == [task EXCEPT !.timer = NoTimer]
            st == IF SendFails(procs[p], lost)
                    THEN ListDone(t0, procs[p], tools, "reset")
                    ELSE ListRead(t0,
                           TransportWrite(procs[p],
                             Request(i, ToolsListId, "tools/list")), i)
        IN /\ tasks' = [tasks EXCEPT ![i] = st.task]
           /\ procs' = [procs EXCEPT ![p] = st.proc]
           /\ tools' = st.tools
           /\ server_data' = st.sd
     /\ InitUnchanged

InitListWake(i) ==
  LET task == tasks[i]
      p == task.proc
  IN /\ i \in DOMAIN tasks
     /\ task.kind = "init" /\ task.pc = "list_wait" /\ CanRun(task.loop)
     /\ procs[p].out # << >> \/ procs[p].eof
     /\ LET st == ListRead([task EXCEPT !.timer = NoTimer],
                           [procs[p] EXCEPT !.waiter = NoTask], i)
        IN /\ tasks' = [tasks EXCEPT ![i] = st.task]
           /\ procs' = [procs EXCEPT ![p] = st.proc]
           /\ tools' = st.tools
           /\ server_data' = st.sd
     /\ InitUnchanged

InitListExpire(i) ==
  LET task == tasks[i]
      p == task.proc
  IN /\ i \in DOMAIN tasks
     /\ task.kind = "init" /\ task.pc = "list_wait" /\ CanRun(task.loop)
     /\ now >= task.timer
     /\ LET st == ListDone(task, [procs[p] EXCEPT !.waiter = NoTask], tools,
                           "timeout")
        IN /\ tasks' = [tasks EXCEPT ![i] = st.task]
           /\ procs' = [procs EXCEPT ![p] = st.proc]
           /\ tools' = st.tools
           /\ server_data' = st.sd
     /\ InitUnchanged

\* ---- _async_cleanup
\* one pass of the for loop over self._server_data.items(), from entry k on:
\* stdin is closed; terminate() of a process that already exited raises
\* ProcessLookupError, which is logged, and the loop goes on without
\* suspending; otherwise the coroutine waits up to 2 seconds for the exit
RECURSIVE CleanFrom(_, _, _)
CleanFrom(task, ps, k) ==
  IF Len(server_data) # task.dlen
    THEN [task |-> Finish(task, Raised("RuntimeError")), procs |-> ps,
          clear |-> FALSE]
  ELSE IF k > task.dlen
    THEN [task |-> Finish(task, Returned), procs |-> ps, clear |-> TRUE]
  ELSE LET p == server_data[k].proc
           closed == [ps EXCEPT ![p].stdinClosed = TRUE]
       IN IF ps[p].eof
            THEN CleanFrom(task, closed, k + 1)
            ELSE [task |-> [task EXCEPT !.pc = "term_wait", !.idx = k,
                                        !.proc = p,
                                        !.timer = now + TerminateTimeout],
                  procs |-> [closed EXCEPT ![p].termed = TRUE],
                  clear |-> FALSE]

CleanApply(i, st) ==
  /\ tasks' = [tasks EXCEPT ![i] = st.task]
  /\ procs' = st.procs
  /\ tools' = IF st.clear THEN << >> ELSE tools
  /\ server_data' = IF st.clear THEN << >> ELSE server_data
  /\ InitUnchanged

CleanStart(i) ==
  LET task == tasks[i]
  IN /\ i \in DOMAIN tasks
     /\ task.kind = "cleanup" /\ task.pc = "start" /\ CanRun(task.loop)
     /\ CleanApply(i, CleanFrom([task EXCEPT !.dlen = Len(server_data)], procs, 1))

\* the process exited, or the 2 seconds are over (TimeoutError is logged)
CleanResume(i) ==
  LET task == tasks[i]
  IN /\ i \in DOMAIN tasks
     /\ task.kind = "cleanup" /\ task.pc = "term_wait" /\ CanRun(task.loop)
     /\ procs[task.proc].eof \/ now >= task.timer
     /\ CleanApply(i, CleanFrom([task EXCEPT !.timer = NoTimer], procs,
                                task.idx + 1))

\* ---------------------------------------------------------- the loop thread
\* _run_event_loop: the thread creates its loop, stores it in self._loop
\* and enters run_forever
LoopRun(l) ==
  /\ l \in DOMAIN loops /\ loops[l] = "starting"
  /\ loops' = [loops EXCEPT ![l] = "running"]
  /\ curLoop' = l
  /\ UNCHANGED <<handler, agent, now, config, initialized, tools, server_data, procs,
                 tasks, threads, used>>

\* the loop runs the stop callback that cleanup scheduled
LoopStop(l) ==
  /\ l \in DOMAIN loops /\ loops[l] = "stopping" /\ CanRun(l)
  /\ loops' = [loops EXCEPT ![l] = "stopped"]
  /\ UNCHANGED <<handler, agent, now, config, initialized, curLoop, tools, server_data,
                 procs, tasks, threads, used>>

\* the transport's writer callback: buffered bytes go to the pipe as far as
\* they fit
Flush(p) ==
  /\ p \in DOMAIN procs /\ CanRun(tasks[procs[p].task].loop)
  /\ procs[p].wbuf # << >> /\ Len(procs[p].pipe) < PipeCap
  /\ LET k == Min2(Len(procs[p].wbuf), PipeCap - Len(procs[p].pipe))
     IN procs' = [procs EXCEPT ![p].pipe = @ \o SubSeq(procs[p].wbuf, 1, k),
                               ![p].wbuf = SubSeq(@, k + 1, Len(@))]
  /\ UNCHANGED <<handler, agent, now, config, initialized, loops, curLoop, tools,
                 server_data, tasks, threads, used>>

\* ------------------------------------------------------- the public methods
ThreadUnchanged == UNCHANGED <<handler, agent, now, config, tools, server_data, procs>>

Raise(msg) == Val("raise", msg, NoTask, NoId)

\* the method meth returns val (or raises it) to the caller
Back(th, meth, val) ==
  [threads EXCEPT ![th] = [IdleThread EXCEPT !.meth = meth, !.ret = val]]

\* _run_in_loop accepts the coroutine: it is scheduled on self._loop and the
\* caller waits up to 60 seconds
Submit(th, pc, kind, tool, args) ==
  /\ tasks' = Append(tasks, NewTask(kind, curLoop, tool, args))
  /\ threads' = [threads EXCEPT ![th] =
                   [threads[th] EXCEPT !.pc = pc, !.task = Len(tasks) + 1,
                                       !.timer = now + RunInLoopTimeout]]

\* CallToolResult without the except clause of call_tool: what was raised
\* reaches the caller
CallToolReraises(fut) == IF fut.kind = "exc" THEN Raise(fut.msg) ELSE fut

\* what call_tool returns for the outcome of _run_in_loop: the value of the
\* coroutine, or {"error": str(e)} for whatever was raised
CallToolResult(fut) == IF fut.kind = "exc" THEN Error(fut.msg) ELSE fut

\* call_tool, up to the wait on the future
CallTool(th, name, args) ==
  /\ threads[th].pc = "idle"
  /\ used' = [used EXCEPT !.calls = @ + 1]
  /\ IF ~initialized
       THEN /\ threads' = Back(th, "call_tool", Error("MCP client not initialized"))
            /\ tasks' = tasks
     ELSE IF ~LoopRuns(curLoop)
       THEN /\ threads' = Back(th, "call_tool",
                                 CallToolResult(Raised("MCP event loop not running")))
            /\ tasks' = tasks
     ELSE Submit(th, "call_wait", "call", name, args)
  /\ UNCHANGED <<initialized, loops, curLoop>>
  /\ ThreadUnchanged

\* WaitOutcome of future.result() without a timeout
WaitForever(th) ==
  LET fut == tasks[threads[th].task].fut
  IN IF fut.kind # "pending" THEN {fut} ELSE {}

\* future.result(timeout=60) returns, raises what the coroutine raised, or
\* raises TimeoutError
WaitOutcome(th) ==
  LET fut == tasks[threads[th].task].fut
  IN IF fut.kind # "pending" THEN {fut}
     ELSE IF now >= threads[th].timer THEN {Raised("")}
     ELSE {}

CallToolReturn(th) ==
  /\ threads[th].pc = "call_wait"
  /\ \E out \in WaitOutcome(th) : threads' = Back(th, "call_tool", CallToolResult(out))
  /\ UNCHANGED <<initialized, loops, curLoop, tasks, used>>
  /\ ThreadUnchanged

\* initialize, up to time.sleep(1)
Initialize(th) ==
  /\ threads[th].pc = "idle"
  /\ used' = [used EXCEPT !.inits = @ + 1]
  /\ IF initialized
       THEN /\ threads' = Back(th, "initialize", Returned)
            /\ loops' = loops
       ELSE /\ loops' = Append(loops, "starting")
            /\ threads' = [threads EXCEPT ![th] =
                             [threads[th] EXCEPT !.pc = "init_sleep",
                                                 !.timer = now + LoopStartSleep]]
  /\ UNCHANGED <<initialized, curLoop, tasks>>
  /\ ThreadUnchanged

\* after the sleep: _run_in_loop(self._async_initialize())
InitializeSubmit(th) ==
  /\ threads[th].pc = "init_sleep" /\ now >= threads[th].timer
  /\ IF ~LoopRuns(curLoop)
       THEN /\ threads' = Back(th, "initialize", Raise("MCP event loop not running"))
            /\ tasks' = tasks
       ELSE Submit(th, "init_wait", "init", NoKey, "json")
  /\ UNCHANGED <<initialized, loops, curLoop, used>>
  /\ ThreadUnchanged

InitializeReturn(th) ==
  /\ threads[th].pc = "init_wait"
  /\ \E out \in WaitOutcome(th) :
       IF out.kind = "exc"
         THEN /\ threads' = Back(th, "initialize", Raise(out.msg))
              /\ initialized' = initialized
         ELSE /\ threads' = Back(th, "initialize", Returned)
              /\ initialized' = TRUE
  /\ UNCHANGED <<loops, curLoop, tasks, used>>
  /\ ThreadUnchanged

\* cleanup, up to the wait on the future
Cleanup(th) ==
  /\ threads[th].pc = "idle" /\ used.cleanups < MaxCleanups
  /\ used' = [used EXCEPT !.cleanups = @ + 1]
  /\ IF ~initialized
       THEN /\ threads' = Back(th, "cleanup", Returned)
            /\ tasks' = tasks
     ELSE IF ~LoopRuns(curLoop)
       THEN /\ threads' = [threads EXCEPT ![th].pc = "cl_stop"]
            /\ tasks' = tasks
     ELSE Submit(th, "cl_wait", "cleanup", NoKey, "json")
  /\ UNCHANGED <<initialized, loops, curLoop>>
  /\ ThreadUnchanged

\* the wait is over (whatever it raised is logged): ask the loop to stop
\* and join the loop thread for up to 5 seconds
CleanupStop(th) ==
  /\ \/ threads[th].pc = "cl_stop"
     \/ threads[th].pc = "cl_wait" /\ WaitOutcome(th) # {}
  /\ loops' = IF LoopRuns(curLoop) THEN [loops EXCEPT ![curLoop] = "stopping"]
              ELSE loops
  /\ threads' = [threads EXCEPT ![th].pc = "cl_join",
                                ![th].timer = now + JoinTimeout]
  /\ UNCHANGED <<initialized, curLoop, tasks, used>>
  /\ ThreadUnchanged

\* the loop thread ended or the join timed out: the executor is shut down
\* and the client is no longer initialized
CleanupFinish(th) ==
  /\ threads[th].pc = "cl_join"
  /\ loops[Len(loops)] = "stopped" \/ now >= threads[th].timer
  /\ initialized' = FALSE
  /\ threads' = Back(th, "cleanup", Returned)
  /\ UNCHANGED <<loops, curLoop, tasks, used>>
  /\ ThreadUnchanged

\* ------------------------------------------------------------- the agent
\* the thread process_message and initialize of the agent run on
AgentThread == "t1"

\* ---- _validate_and_fix_tool_arguments
\* the table of fixes: the legacy name and the current name of a parameter
Alias(legacy, current) == [legacy |-> legacy, current |-> current]

Fixes(tool_name) ==
  IF tool_name = CallAws THEN {Alias("command", "cli_command")}
  ELSE IF tool_name = SuggestAws THEN {Alias("command", "query")}
  ELSE IF tool_name = SearchDocs THEN {Alias("search", "search_phrase")}
  ELSE {}

\* fixed_arguments[current] = fixed_arguments.pop(legacy)
Renamed(map, fix) ==
  [k \in (DOMAIN map \ {fix.legacy}) \cup {fix.current} |->
     IF k = fix.current THEN map[fix.legacy] ELSE map[k]]

\* the fix of the tool is applied when the legacy name is among the
\* arguments and the current name is not
ApplyFixes(tool_name, map) ==
  IF \E fix \in Fixes(tool_name) :
       fix.legacy \in DOMAIN map /\ fix.current \notin DOMAIN map
    THEN Renamed(map, CHOOSE fix \in Fixes(tool_name) : TRUE)
    ELSE map

\* RemoveUnknown that checks the required list instead of removing
RemoveUnknownSkipped(schema, map) ==
  IF schema.declared /\ schema.required \subseteq DOMAIN map
    THEN [k \in DOMAIN map \cap schema.properties |-> map[k]]
    ELSE map

\* the keys that are not properties of the schema are removed, when the
\* schema is there and has properties
RemoveUnknown(schema, map) ==
  IF schema.declared
    THEN [k \in DOMAIN map \cap schema.properties |-> map[k]]
    ELSE map

\* what _validate_and_fix_tool_arguments does with the arguments it is
\* given: fixed is what it returns, given is what the caller's object
\* holds afterwards, raised whether it raised instead of returning.  For
\* a tool that is not in the catalog the arguments come back as they are;
\* arguments that are no dict have no copy()
ValidateAndFix(catalog, tool_name, arguments) ==
  IF tool_name \notin DOMAIN catalog
    THEN [fixed |-> arguments, given |-> arguments, raised |-> FALSE]
  ELSE IF arguments.kind # "map"
    THEN [fixed |-> arguments, given |-> arguments, raised |-> TRUE]
  ELSE [fixed |-> ArgMap(RemoveUnknown(catalog[tool_name].input_schema,
                                       ApplyFixes(tool_name, arguments.map))),
        given |-> arguments, raised |-> FALSE]

\* get_server_status: every server record is shown as connected
ServerStatus(sd) == {<<sd[j].server, "Connected">> : j \in 1..Len(sd)}

\* ---- process_message and initialize
\* the public method returns (or raises) to its caller
AgentReturn(a, kind, text) ==
  [a EXCEPT !.pc = "idle", !.op = "none", !.ret = AgentVal(a.op, kind, text)]

\* the message returned for an exception caught by process_message
Fallback(text) ==
  IF text = "Unable to locate credentials" THEN "credentials"
  ELSE IF text = "ValidationException" THEN "validation"
  ELSE IF text = "ThrottlingException" THEN "throttling"
  ELSE IF text \in {"MCP event loop not running", "asyncio"} THEN "scheduler"
  ELSE "generic"

\* the except clause of process_message
Fails(a, text) == AgentReturn(a, "fallback", Fallback(text))

\* Initialized that raises for a catalog without tools
InitializedWithTools(a) ==
  IF tools = << >> THEN AgentReturn(a, "raise", "no tools")
  ELSE IF a.op = "process_message"
    THEN [a EXCEPT !.last_tool_calls = << >>, !.pc = "intent"]
    ELSE AgentReturn(a, "none", "")

\* the agent is initialized: initialize returns, process_message clears
\* the debug record and goes on to the intent analysis
Initialized(a) ==
  IF a.op = "process_message"
    THEN [a EXCEPT !.last_tool_calls = << >>, !.pc = "intent"]
    ELSE AgentReturn(a, "none", "")

\* initialize up to the client: the Bedrock client is created, or the
\* exception of the session is raised again
Construct(a, ok, text) ==
  IF ok THEN [a EXCEPT !.bedrock_client = TRUE, !.pc = "mcp_initialize"]
  ELSE AgentReturn(a, "raise", text)

\* everything but the agent and its thread
AgentUnchanged == UNCHANGED <<handler, now, config, initialized, loops, curLoop,
                              tools, server_data, procs, tasks, used>>

\* the thread of the agent is outside the client
Free(th) == threads[th] = IdleThread

\* the method meth of the client has returned to the agent
Came(th, meth) == threads[th].pc = "idle" /\ threads[th].meth = meth

\* await agent.initialize()
AgentInitialize(ok, text) ==
  /\ agent.pc = "idle" /\ Free(AgentThread)
  /\ LET a == [agent EXCEPT !.op = "initialize"]
     IN agent' = IF a.initialized THEN AgentReturn(a, "none", "")
                 ELSE Construct(a, ok, text)
  /\ UNCHANGED threads
  /\ AgentUnchanged

\* process_message(m) up to the try: the lazy initialize of an agent that
\* is not initialized
ProcessMessage(m, ok, text) ==
  /\ agent.pc = "idle" /\ Free(AgentThread)
  /\ LET a == [agent EXCEPT !.op = "process_message", !.user_message = m,
                            !.messages = @ + 1, !.reply = "none",
                            !.intent = NoIntent, !.k = 0,
                            !.tool_results = << >>, !.fixed = NoArguments,
                            !.result = Pending, !.invoked = << >>,
                            !.events = << >>, !.calls0 = used.calls]
     IN agent' = IF a.initialized THEN Initialized(a)
                 ELSE Construct(a, ok, text)
  /\ UNCHANGED threads
  /\ AgentUnchanged

\* self.mcp_client.initialize()
AgentMcpInitialize ==
  /\ agent.pc = "mcp_initialize" /\ Free(AgentThread)
  /\ Initialize(AgentThread)

\* the client's initialize returned, or raised: the exception leaves
\* initialize (and process_message, whose call of it is outside the try)
AgentMcpInitialized ==
  /\ agent.pc = "mcp_initialize" /\ Came(AgentThread, "initialize")
  /\ agent' = IF threads[AgentThread].ret.kind = "raise"
                THEN AgentReturn(agent, "raise", threads[AgentThread].ret.msg)
                ELSE Initialized([agent EXCEPT !.initialized = TRUE])
  /\ threads' = [threads EXCEPT ![AgentThread] = IdleThread]
  /\ AgentUnchanged

\* what _analyze_intent gives its caller
Analysis(raised, intent) == [raised |-> raised, intent |-> intent]

\* AnalyzeIntent without its except clauses
AnalyzeIntentRaises(reply, parsed) ==
  IF reply = "object" THEN Analysis("", parsed)
  ELSE IF reply = "nojson" THEN Analysis("", NoIntent)
  ELSE IF reply = "badjson" THEN Analysis("JSONDecodeError", NoIntent)
  ELSE Analysis("ThrottlingException", NoIntent)

\* _analyze_intent: the parsed object, or needs_tools False when the text
\* has no object, does not parse or the call of Bedrock raised; it raises
\* nothing
AnalyzeIntent(reply, parsed) ==
  IF reply = "object" THEN Analysis("", parsed) ELSE Analysis("", NoIntent)

\* AgentIntent without the test of needs_tools
AgentIntentUnconditional(reply, parsed) ==
  /\ agent.pc = "intent"
  /\ LET analysis == AnalyzeIntent(reply, parsed)
         intent == analysis.intent
         a == [agent EXCEPT !.intent = intent, !.reply = reply, !.k = 1,
                            !.events = Append(@, "intent")]
     IN agent' = IF analysis.raised # "" THEN Fails(a, analysis.raised)
                 ELSE IF intent.shape = "null" THEN Fails(a, "TypeError")
                 ELSE [a EXCEPT !.pc = "tool"]
  /\ UNCHANGED threads
  /\ AgentUnchanged

\* steps 1 and 2 of process_message up to the for loop; len() of a
\* tool_calls that is no list raises
AgentIntent(reply, parsed) ==
  /\ agent.pc = "intent"
  /\ LET analysis == AnalyzeIntent(reply, parsed)
         intent == analysis.intent
         a == [agent EXCEPT !.intent = intent, !.reply = reply, !.k = 1,
                            !.events = Append(@, "intent")]
     IN agent' = IF analysis.raised # "" THEN Fails(a, analysis.raised)
                 ELSE IF ~intent.needs_tools THEN [a EXCEPT !.pc = "generate"]
                 ELSE IF intent.shape = "null" THEN Fails(a, "TypeError")
                 ELSE [a EXCEPT !.pc = "tool"]
  /\ UNCHANGED threads
  /\ AgentUnchanged

\* tool_call.get('arguments', {})
GetArguments(tool_call) ==
  IF tool_call.arguments.kind = "missing" THEN ArgMap(<< >>)
  ELSE tool_call.arguments

\* an entry of tool_results
ToolResult(tool, result, fallback_reason) ==
  [tool |-> tool, result |-> result, fallback_reason |-> fallback_reason]

\* tool_results.append(...) ends the iteration of the for loop
Record(a, tr) ==
  [a EXCEPT !.tool_results = Append(@, tr), !.k = @ + 1, !.pc = "tool"]

\* one iteration of the for loop up to call_tool: tool_call['name'] of an
\* entry without a name raises outside the inner try; an exception of the
\* repair is recorded as the outcome of the call
BeginToolCall(a, catalog) ==
  LET tool_call == a.intent.tool_calls[a.k]
      arguments == GetArguments(tool_call)
      b == [a EXCEPT !.last_tool_calls =
              Append(@, [name |-> tool_call.name, arguments |-> arguments])]
      v == ValidateAndFix(catalog, tool_call.name, arguments)
  IN IF tool_call.name = NoKey THEN Fails(a, "KeyError")
     ELSE IF v.raised
       THEN Record(b, ToolResult(tool_call.name,
                                 Error("exception: AttributeError"), "none"))
     ELSE [b EXCEPT !.fixed = v.fixed, !.pc = "call"]

\* the for loop: the next entry, or step 3 when there is none left
AgentTool ==
  /\ agent.pc = "tool"
  /\ agent' = IF agent.k > Len(agent.intent.tool_calls)
                THEN [agent EXCEPT !.pc = "generate"]
                ELSE BeginToolCall(agent, tools)
  /\ UNCHANGED threads
  /\ AgentUnchanged

\* what json.dumps makes of arguments that json.loads produced
Serialized(arguments) == "json"

\* self.mcp_client.call_tool(tool_call["name"], fixed_arguments)
AgentCall ==
  /\ agent.pc = "call" /\ Free(AgentThread)
  /\ CallTool(AgentThread, agent.intent.tool_calls[agent.k].name,
              Serialized(agent.fixed))

\* "validation" in error.lower() or "parameters" in error.lower()
ValidationShaped(msg) ==
  msg \in {"AWS CLI validation error", "Invalid parameters"}

\* an invocation of call_tool that returned result, made for entry k of
\* tool_calls
Invocation(k, name, arguments, result) ==
  [entry |-> k, name |-> name, arguments |-> arguments, result |-> result]

\* the result of the call is in: the fallback is tried for a validation
\* error of aws-api:call_aws with a cli_command, every other result is
\* recorded as it is
AgentResult ==
  /\ agent.pc = "call" /\ Came(AgentThread, "call_tool")
  /\ LET tool_call == agent.intent.tool_calls[agent.k]
         result == threads[AgentThread].ret
         a == [agent EXCEPT !.invoked =
                 Append(@, Invocation(agent.k, tool_call.name, agent.fixed,
                                      result)),
                            !.events = Append(@, "tool")]
     IN agent' =
          IF result.kind = "error" /\ ValidationShaped(result.msg)
                                   /\ tool_call.name = CallAws
            THEN IF a.fixed.kind # "map"
                   THEN Record(a, ToolResult(tool_call.name,
                                             Error("exception: TypeError"), "none"))
                 ELSE IF "cli_command" \in DOMAIN a.fixed.map
                   THEN [a EXCEPT !.result = result, !.pc = "suggest"]
                 ELSE Record(a, ToolResult(tool_call.name, result, "none"))
            ELSE Record(a, ToolResult(tool_call.name, result, "none"))
  /\ threads' = [threads EXCEPT ![AgentThread] = IdleThread]
  /\ AgentUnchanged

\* {"query": query}, query the user's message
SuggestArguments(a) == OneArg("query", a.user_message)

\* self.mcp_client.call_tool("aws-api:suggest_aws_commands", {"query": query})
AgentSuggest ==
  /\ agent.pc = "suggest" /\ Free(AgentThread)
  /\ CallTool(AgentThread, SuggestAws, Serialized(ArgMap(SuggestArguments(agent))))

\* Suggested that records the suggestion whatever it is
SuggestedAlways(tool_call, result, suggestion_result) ==
  ToolResult(SuggestAws, suggestion_result, result.msg)

\* what is recorded after the fallback: the suggestions with the reason
\* when there is a result, the error of the requested call otherwise
Suggested(tool_call, result, suggestion_result) ==
  IF suggestion_result.kind = "result"
    THEN ToolResult(SuggestAws, suggestion_result, result.msg)
    ELSE ToolResult(tool_call.name, result, "none")

AgentSuggested ==
  /\ agent.pc = "suggest" /\ Came(AgentThread, "call_tool")
  /\ LET tool_call == agent.intent.tool_calls[agent.k]
         a == [agent EXCEPT !.invoked =
                 Append(@, Invocation(agent.k, SuggestAws,
                                      ArgMap(SuggestArguments(agent)),
                                      threads[AgentThread].ret)),
                            !.events = Append(@, "tool")]
     IN agent' = Record(a, Suggested(tool_call, agent.result,
                                     threads[AgentThread].ret))
  /\ threads' = [threads EXCEPT ![AgentThread] = IdleThread]
  /\ AgentUnchanged

\* _generate_response: the text of Bedrock, or the apology when the call
\* raised
GenerateResponse(ok) == IF ok THEN "generated" ELSE "apology"

\* [tr["tool"] for tr in tool_results]
ToolsUsed(tool_results) ==
  [j \in 1..Len(tool_results) |-> tool_results[j].tool]

\* an entry of conversation_history
Turn(user, assistant, tools_used) ==
  [user |-> user, assistant |-> assistant, tools_used |-> tools_used]

\* Completed that records the tools that were asked for
CompletedRequested(a, final_response) ==
  AgentReturn([a EXCEPT !.conversation_history =
                 Append(@, Turn(a.user_message, final_response,
                                [j \in 1..Len(a.last_tool_calls) |->
                                   a.last_tool_calls[j].name]))],
              "reply", final_response)

\* step 4 of process_message and its return
Completed(a, final_response) ==
  AgentReturn([a EXCEPT !.conversation_history =
                 Append(@, Turn(a.user_message, final_response,
                                ToolsUsed(a.tool_results)))],
              "reply", final_response)

\* steps 3 and 4 of process_message
AgentGenerate(ok) ==
  /\ agent.pc = "generate"
  /\ agent' = Completed([agent EXCEPT !.events = Append(@, "reply")],
                        GenerateResponse(ok))
  /\ UNCHANGED threads
  /\ AgentUnchanged

\* clear_history
ClearHistory ==
  /\ agent.pc = "idle"
  /\ agent' = [agent EXCEPT !.conversation_history = << >>]
  /\ UNCHANGED threads
  /\ AgentUnchanged

\* ---- cleanup of the agent
\* await agent.cleanup(): it has the tool client, cleans it up
AgentCleanup ==
  /\ agent.pc = "idle" /\ Free(AgentThread)
  /\ agent' = [agent EXCEPT !.op = "cleanup", !.pc = "mcp_cleanup"]
  /\ UNCHANGED threads
  /\ AgentUnchanged

\* self.mcp_client.cleanup()
AgentMcpCleanup ==
  /\ agent.pc = "mcp_cleanup" /\ Free(AgentThread)
  /\ Cleanup(AgentThread)

\* the client's cleanup returned: so does the agent's, which assigns no
\* field of the agent
AgentMcpCleaned ==
  /\ agent.pc = "mcp_cleanup" /\ Came(AgentThread, "cleanup")
  /\ agent' = AgentReturn(agent, "none", "")
  /\ threads' = [threads EXCEPT ![AgentThread] = IdleThread]
  /\ AgentUnchanged

\* ------------------------------------------- the bridge (async_handler.py)
\* the fields of the agent that are locals of one process_message
LocalFields == DOMAIN NewRun

Locals(a) == [f \in LocalFields |-> a[f]]

\* the process_message executions there are: the one the model follows
\* and the one on the other worker thread
Runs == {Locals(agent), agent.other}

\* the text of the n-th coroutine handed over: process_message(Msg(n))
Msg(n) == MaxArgValues + n

\* the n-th coroutine is over: it returned or raised
Over(e, n) ==
  e.user_message = Msg(n) /\ e.pc = "idle" /\ e.ret.op = "process_message"

Done(n) == \E e \in Runs : Over(e, n)

\* what run_async gives back when the coroutine is over: its result, or
\* what it raised; a TimeoutError of the coroutine itself is caught by the
\* except clause of the bridge timeout
Outcome(n) ==
  LET e == CHOOSE e \in Runs : Over(e, n)
  IN IF e.ret.kind # "raise" THEN "result"
     ELSE IF e.ret.text = "" THEN "TimeoutError"
     ELSE "raise"

HandlerUnchanged ==
  UNCHANGED <<agent, now, config, initialized, loops, curLoop, tools,
              server_data, procs, tasks, threads, used>>

\* RunAsync with the executor created before the running loop is looked for
RunAsyncEager(running, timeout) ==
  /\ handler.pc = "idle" /\ handler.handed < MaxMessages
  /\ handler' =
       IF running
         THEN [handler EXCEPT !.executor = TRUE, !.pc = "wait",
                              !.running = TRUE,
                              !.timer = now + timeout,
                              !.deadline = now + timeout,
                              !.handed = @ + 1, !.pooled = @ + 1,
                              !.ret = "none"]
         ELSE [handler EXCEPT !.executor = TRUE, !.pc = "direct",
                              !.running = FALSE,
                              !.deadline = now + timeout,
                              !.handed = @ + 1, !.ret = "none"]
  /\ HandlerUnchanged

\* run_async(coro, timeout) up to the wait: with a loop running on the
\* caller's thread the executor is created if there is none, the coroutine
\* is submitted to it and the caller waits for the future up to timeout;
\* with none, get_running_loop raises and the coroutine is given to
\* asyncio.run on the caller's thread
RunAsync(running, timeout) ==
  /\ handler.pc = "idle" /\ handler.handed < MaxMessages
  /\ handler' =
       IF running
         THEN [handler EXCEPT !.executor = TRUE, !.pc = "wait",
                              !.running = TRUE,
                              !.timer = now + timeout,
                              !.deadline = now + timeout,
                              !.handed = @ + 1, !.pooled = @ + 1,
                              !.ret = "none"]
         ELSE [handler EXCEPT !.pc = "direct", !.running = FALSE,
                              !.deadline = now + timeout,
                              !.handed = @ + 1, !.ret = "none"]
  /\ HandlerUnchanged

\* the thread that runs the coroutine (a worker of the executor in
\* _run_in_new_loop, the caller in asyncio.run) begins process_message
RunCoroutine(m, ok, text) ==
  /\ handler.handed > agent.messages /\ m = Msg(agent.messages + 1)
  /\ ProcessMessage(m, ok, text)

\* the caller of run_async can go on: the coroutine is over, or the timeout
\* of future.result is over; asyncio.run has no timeout
HandlerRunnable ==
  \/ handler.pc \in {"wait", "direct"} /\ Done(handler.handed)
  \/ handler.pc = "wait" /\ now >= handler.timer

\* run_async returns the result, raises what the coroutine raised, or
\* raises TimeoutError and leaves the coroutine to its worker
RunAsyncReturn ==
  /\ HandlerRunnable
  /\ handler' = [handler EXCEPT
                   !.pc = "idle", !.timer = NoTimer,
                   !.ret = IF Done(handler.handed) THEN Outcome(handler.handed)
                           ELSE "TimeoutError"]
  /\ HandlerUnchanged

\* the process_message on the other worker thread as the one the model
\* follows, and the other way round
Switched(a) ==
  [f \in DOMAIN a |->
     IF f = "other" THEN Locals(a)
     ELSE IF f \in LocalFields THEN a.other[f]
     ELSE a[f]]

\* the executor has two workers: the model turns to the other one, on
\* which a process_message runs or the next coroutine can begin
Switch ==
  /\ \/ agent.other.pc # "idle"
     \/ agent.pc # "idle" /\ handler.handed > agent.messages
  /\ agent' = Switched(agent)
  /\ threads' = [th \in Threads |->
                   threads[CHOOSE u \in Threads : u # th]]
  /\ UNCHANGED <<handler, now, config, initialized, loops, curLoop, tools,
                 server_data, procs, tasks, used>>

\* ------------------------------------------------------------ computation
ReadWaits == {"wait1", "wait2", "hs_wait", "list_wait"}

\* the loop has a callback ready for coroutine i
TaskRunnable(i) ==
  LET task == tasks[i]
  IN /\ LoopRuns(task.loop)
     /\ \/ task.pc \in {"start", "spawn", "sent"}
        \/ task.pc \in ReadWaits
             /\ (procs[task.proc].out # << >> \/ procs[task.proc].eof)
        \/ task.pc = "term_wait" /\ procs[task.proc].eof
        \/ task.timer # NoTimer /\ now >= task.timer

LoopBusy ==
  \/ \E i \in 1..Len(tasks) : TaskRunnable(i)
  \/ \E l \in DOMAIN loops : loops[l] \in {"starting", "stopping"}
  \/ \E p \in DOMAIN procs :
       /\ procs[p].wbuf # << >> /\ Len(procs[p].pipe) < PipeCap
       /\ LoopRuns(tasks[procs[p].task].loop)

\* a caller blocked on a future can go on
ThreadRunnable(th) ==
  /\ threads[th].pc \in {"call_wait", "init_wait", "cl_wait"}
  /\ tasks[threads[th].task].fut.kind # "pending"

\* the deadlines that are armed: timers of coroutines on a running loop,
\* timed waits of caller threads and that of the caller of run_async
Armed ==
  {tasks[i].timer : i \in {j \in 1..Len(tasks) :
       tasks[j].timer # NoTimer /\ LoopRuns(tasks[j].loop)}}
    \cup {threads[th].timer : th \in {u \in Threads : threads[u].timer # NoTimer}}
    \cup {handler.timer : x \in {y \in {1} : handler.timer # NoTimer}}

\* nothing is computing: computation takes no time, so the subprocesses act
\* and time passes only between computations
Quiet ==
  /\ ~LoopBusy /\ ~HandlerRunnable
  /\ \A th \in Threads : ~ThreadRunnable(th)

\* ------------------------------------------------------------ subprocesses
EnvUnchanged == Quiet /\ UNCHANGED <<handler, agent, now, config, initialized, loops, curLoop,
                            tools, server_data, threads, used>>

\* process p puts a line on its stdout: the calls whose request is written
\* and that are not over have been fed
Fed(p) ==
  [i \in DOMAIN tasks |->
     IF tasks[i].kind = "call" /\ tasks[i].proc = p /\ tasks[i].pc # "done"
       THEN [tasks[i] EXCEPT !.fed = TRUE] ELSE tasks[i]]

\* the request line the subprocess reads next
NextRequest(proc) == proc.pipe[1].line

\* the subprocess reads one request line and puts the response l on its
\* stdout
ServerReply(p, l) ==
  /\ p \in DOMAIN procs /\ ~procs[p].eof /\ LineAtHead(procs[p])
  /\ NextRequest(procs[p]).method # "notifications/initialized"
  /\ procs' = [procs EXCEPT ![p].pipe = SubSeq(@, LineParts + 1, Len(@)),
                            ![p].out = Append(@, l)]
  /\ tasks' = Fed(p)
  /\ EnvUnchanged

\* the subprocess reads the initialized notification, which has no answer
ServerSkip(p) ==
  /\ p \in DOMAIN procs /\ ~procs[p].eof /\ LineAtHead(procs[p])
  /\ NextRequest(procs[p]).method = "notifications/initialized"
  /\ procs' = [procs EXCEPT ![p].pipe = SubSeq(@, LineParts + 1, Len(@))]
  /\ tasks' = tasks
  /\ EnvUnchanged

\* the subprocess reads one request line and never answers it
ServerDrop(p) ==
  /\ p \in DOMAIN procs /\ ~procs[p].eof /\ LineAtHead(procs[p])
  /\ NextRequest(procs[p]).method # "notifications/initialized"
  /\ procs' = [procs EXCEPT ![p].pipe = SubSeq(@, LineParts + 1, Len(@))]
  /\ tasks' = tasks
  /\ EnvUnchanged

\* the subprocess emits a notification line
ServerNotify(p, l) ==
  /\ p \in DOMAIN procs /\ ~procs[p].eof /\ procs[p].notifs < MaxNotifs
  /\ procs' = [procs EXCEPT ![p].notifs = @ + 1, ![p].out = Append(@, l)]
  /\ tasks' = Fed(p)
  /\ EnvUnchanged

\* the subprocess exits: its stdout reaches end of file
ServerExit(p) ==
  /\ p \in DOMAIN procs /\ ~procs[p].eof
  /\ procs' = [procs EXCEPT ![p].eof = TRUE]
  /\ tasks' = tasks
  /\ EnvUnchanged

\* -------------------------------------------------------------------- time
\* time passes to the next deadline
Tick ==
  /\ Quiet
  /\ Armed # {}
  /\ \A d \in Armed : d > now
  /\ now' = SetMin(Armed)
  /\ UNCHANGED <<handler, agent, config, initialized, loops, curLoop, tools,
                 server_data, procs, tasks, threads, used>>

\* time passes, but not as far as the next deadline: it is one second away
Linger ==
  /\ Quiet
  /\ Armed # {}
  /\ SetMin(Armed) - 1 > now
  /\ now' = SetMin(Armed) - 1
  /\ UNCHANGED <<handler, agent, config, initialized, loops, curLoop, tools,
                 server_data, procs, tasks, threads, used>>

\* ---------------------------------------------------------- specifications
\* the client is in the middle of initializing process p
Initializing(p) ==
  \E i \in DOMAIN tasks :
    tasks[i].kind = "init" /\ tasks[i].pc # "done" /\ tasks[i].proc = p

\* process p is the registered process of its server
Ready(p) ==
  \E j \in DOMAIN server_data : server_data[j].proc = p

\* the request line process p reads next, if a complete one is there
Incoming(p) ==
  IF p \in DOMAIN procs /\ LineAtHead(procs[p]) THEN NextRequest(procs[p])
  ELSE NoReq

\* a line that does not parse stands for every response that raises
InitReplyKinds == {"result", "error", "neither", "garbage"}

\* SpecInit: one caller initializes the client; a server answers as it
\* likes, stays silent or exits while the client initializes it
NextInit ==
  \/ \E i \in TaskIds :
       \/ InitBegin(i)
       \/ \E found \in BOOLEAN : InitSpawn(i, found)
       \/ \E lost \in BOOLEAN : InitHandshake(i, lost)
       \/ \E lost \in BOOLEAN : InitHandshakeWake(i, lost)
       \/ InitHandshakeExpire(i)
       \/ \E lost \in BOOLEAN : InitList(i, lost)
       \/ InitListWake(i)
       \/ InitListExpire(i)
  \/ \E l \in LoopIds : LoopRun(l)
  \/ \E p \in ProcIds :
       \/ Flush(p)
       \/ \E l \in RepliesTo(Incoming(p), InitReplyKinds) :
            Initializing(p) /\ ServerReply(p, l)
       \/ Initializing(p) /\ ServerSkip(p)
       \/ Initializing(p) /\ ServerExit(p)
  \/ used.inits < MaxInits /\ Initialize("t1")
  \/ InitializeSubmit("t1")
  \/ InitializeReturn("t1")
  \/ Tick

SpecInit == Init /\ [][NextInit]_vars

\* the responses of a server that follows the protocol while it is being
\* initialized: a result, and for tools/list the one tool "ta"
Conforming(req) ==
  IF req.method = "tools/list"
    THEN {Line("result", req.id, req.task, "", "",
               <<"tools", <<ToolDef("ta", TRUE, NoSchema)>> >>)}
  ELSE IF req.method = "initialize"
    THEN {Line("result", req.id, req.task, "", "", <<"none">>)}
  ELSE {}

\* Spec: the client with one server that follows the protocol while it is
\* initialized and does whatever it likes once it is registered; callers
\* on two threads initialize the client and call tools
InitOne == Init /\ config = <<"s1">>

Next ==
  \/ \E i \in TaskIds :
       \/ InitBegin(i)
       \/ \E found \in BOOLEAN : InitSpawn(i, found)
       \/ InitHandshake(i, FALSE)
       \/ InitHandshakeWake(i, FALSE)
       \/ InitHandshakeExpire(i)
       \/ InitList(i, FALSE)
       \/ InitListWake(i)
       \/ InitListExpire(i)
       \/ \E lost \in BOOLEAN : CallStart(i, lost)
       \/ CallSent(i)
       \/ CallWake(i)
       \/ CallExpire(i)
  \/ \E l \in LoopIds : LoopRun(l)
  \/ \E p \in ProcIds :
       \/ Flush(p)
       \/ \E l \in Conforming(Incoming(p)) : ServerReply(p, l)
       \/ ServerSkip(p)
       \/ \E l \in RepliesTo(Incoming(p), ReplyKinds) :
            Incoming(p).method = "tools/call" /\ ServerReply(p, l)
       \/ Incoming(p).method = "tools/call" /\ ServerDrop(p)
       \/ \E l \in Notifications :
            Incoming(p).method = "tools/call" /\ ServerNotify(p, l)
       \/ Incoming(p).method = "tools/call" /\ ServerExit(p)
  \/ used.inits < MaxInits /\ Initialize("t1")
  \/ InitializeSubmit("t1")
  \/ InitializeReturn("t1")
  \/ \E th \in Threads :
       \/ \E name \in CallNames, args \in CallArgs :
            used.calls < MaxCalls /\ CallTool(th, name, args)
       \/ CallToolReturn(th)
  \/ Tick

Spec == InitOne /\ [][Next]_vars

\* SpecLife: as Spec, with one caller that initializes the client and calls
\* tools while the other one cleans the client up
NextLife ==
  \/ \E i \in TaskIds :
       \/ InitBegin(i)
       \/ \E found \in BOOLEAN : InitSpawn(i, found)
       \/ InitHandshake(i, FALSE)
       \/ InitHandshakeWake(i, FALSE)
       \/ InitHandshakeExpire(i)
       \/ InitList(i, FALSE)
       \/ InitListWake(i)
       \/ InitListExpire(i)
       \/ \E lost \in BOOLEAN : CallStart(i, lost)
       \/ CallSent(i)
       \/ CallWake(i)
       \/ CallExpire(i)
       \/ CleanStart(i)
       \/ CleanResume(i)
  \/ \E l \in LoopIds : LoopRun(l) \/ LoopStop(l)
  \/ \E p \in ProcIds :
       \/ Flush(p)
       \/ \E l \in Conforming(Incoming(p)) : ServerReply(p, l)
       \/ ServerSkip(p)
       \/ \E l \in RepliesTo(Incoming(p), ReplyKinds) :
            Incoming(p).method = "tools/call" /\ ServerReply(p, l)
       \/ Incoming(p).method = "tools/call" /\ ServerDrop(p)
       \/ \E l \in Notifications :
            Incoming(p).method = "tools/call" /\ ServerNotify(p, l)
       \/ Incoming(p).method = "tools/call" /\ ServerExit(p)
  \/ used.inits < MaxInits /\ Initialize("t1")
  \/ InitializeSubmit("t1")
  \/ InitializeReturn("t1")
  \/ \E name \in CallNames, args \in CallArgs :
       used.calls < MaxCalls /\ CallTool("t1", name, args)
  \/ CallToolReturn("t1")
  \/ Cleanup("t2")
  \/ CleanupStop("t2")
  \/ CleanupFinish("t2")
  \/ Tick

SpecLife == InitOne /\ [][NextLife]_vars

\* SpecStdin: callers on two threads call the tool of a server that reads
\* its stdin line by line and answers no call
NextStdin ==
  \/ \E i \in TaskIds :
       \/ InitBegin(i)
       \/ InitSpawn(i, TRUE)
       \/ InitHandshake(i, FALSE)
       \/ InitHandshakeWake(i, FALSE)
       \/ InitHandshakeExpire(i)
       \/ InitList(i, FALSE)
       \/ InitListWake(i)
       \/ InitListExpire(i)
       \/ CallStart(i, FALSE)
       \/ CallSent(i)
       \/ CallExpire(i)
  \/ \E l \in LoopIds : LoopRun(l)
  \/ \E p \in ProcIds :
       \/ Flush(p)
       \/ \E l \in Conforming(Incoming(p)) : ServerReply(p, l)
       \/ ServerSkip(p)
       \/ Incoming(p).method = "tools/call" /\ ServerDrop(p)
  \/ used.inits < MaxInits /\ Initialize("t1")
  \/ InitializeSubmit("t1")
  \/ InitializeReturn("t1")
  \/ \E th \in Threads :
       \/ used.calls < MaxWrites /\ CallTool(th, QualifiedName("s1", "ta"), "json")
       \/ CallToolReturn(th)
  \/ Tick

SpecStdin == InitOne /\ [][NextStdin]_vars

\* SpecWait: servers that follow the protocol, answer late or not at all
\* and exit when they are terminated; one caller initializes the client and
\* calls a tool, the other one cleans the client up.  What the loop thread
\* and the caller threads can do they do, and time passes.
LoopStep ==
  \/ \E i \in TaskIds :
       \/ InitBegin(i)
       \/ InitSpawn(i, TRUE)
       \/ InitHandshake(i, FALSE)
       \/ InitHandshakeWake(i, FALSE)
       \/ InitHandshakeExpire(i)
       \/ InitList(i, FALSE)
       \/ InitListWake(i)
       \/ InitListExpire(i)
       \/ CallStart(i, FALSE)
       \/ CallSent(i)
       \/ CallWake(i)
       \/ CallExpire(i)
       \/ CleanStart(i)
       \/ CleanResume(i)
  \/ \E l \in LoopIds : LoopRun(l) \/ LoopStop(l)
  \/ \E p \in ProcIds : Flush(p)

ThreadStep(th) ==
  \/ InitializeSubmit(th)
  \/ InitializeReturn(th)
  \/ CallToolReturn(th)
  \/ CleanupStop(th)
  \/ CleanupFinish(th)

NextWait ==
  \/ LoopStep
  \/ \E th \in Threads : ThreadStep(th)
  \/ \E p \in ProcIds :
       \/ \E l \in Conforming(Incoming(p)) : ServerReply(p, l)
       \/ Initializing(p) /\ ServerSkip(p)
       \/ p \in DOMAIN procs /\ procs[p].termed /\ ServerExit(p)
  \/ used.inits < MaxInits /\ Initialize("t1")
  \/ used.calls = 0 /\ CallTool("t1", QualifiedName("s1", "ta"), "json")
  \/ Cleanup("t2")
  \/ Linger
  \/ Tick

SpecWait ==
  /\ Init /\ [][NextWait]_vars
  /\ WF_vars(LoopStep) /\ WF_vars(Tick)
  /\ \A th \in Threads : WF_vars(ThreadStep(th))


\* SpecAgent: the agent with no server or with the server aws-api, which is
\* not launched, refuses the handshake or comes up with its tools, and then
\* answers each call with a result, an error or a validation error; the
\* agent is initialized and processes one message
AwsReplies(req) ==
  IF req.method = "initialize"
    THEN RepliesTo(req, {"result", "error"})
  ELSE IF req.method = "tools/list"
    THEN {Line("result", req.id, req.task, "", "", <<"tools", tl>>) :
            tl \in AwsToolLists}
  ELSE IF req.method = "tools/call"
    THEN RepliesTo(req, {"result", "error"})
           \cup {Line("error", req.id, req.task, "", "parameters", <<"none">>)}
  ELSE {}

InitAgent == Constructed /\ config \in {<< >>, AwsApi}

\* the steps of the client below an agent
ClientStep ==
  \/ \E i \in DOMAIN tasks :
       \/ InitBegin(i)
       \/ \E found \in BOOLEAN : InitSpawn(i, found)
       \/ InitHandshake(i, FALSE)
       \/ InitHandshakeWake(i, FALSE)
       \/ InitHandshakeExpire(i)
       \/ InitList(i, FALSE)
       \/ InitListWake(i)
       \/ InitListExpire(i)
       \/ CallStart(i, FALSE)
       \/ CallSent(i)
       \/ CallWake(i)
       \/ CallExpire(i)
  \/ \E l \in DOMAIN loops : LoopRun(l)
  \/ \E p \in DOMAIN procs :
       \/ Flush(p)
       \/ \E l \in AwsReplies(Incoming(p)) : ServerReply(p, l)
       \/ ServerSkip(p)
  \/ InitializeSubmit(AgentThread)
  \/ InitializeReturn(AgentThread)
  \/ CallToolReturn(AgentThread)
  \/ Tick

\* the steps of process_message and initialize after their entry
AgentStep ==
  \/ used.inits < MaxInits /\ AgentMcpInitialize
  \/ AgentMcpInitialized
  \/ \E reply \in IntentReplies :
       \E parsed \in IF reply = "object" THEN Intents ELSE {NoIntent} :
         AgentIntent(reply, parsed)
  \/ AgentTool
  \/ AgentCall
  \/ AgentResult
  \/ AgentSuggest
  \/ AgentSuggested
  \/ \E ok \in BOOLEAN : AgentGenerate(ok)

\* the session or Bedrock raises text, or does not
Raising == {<<FALSE, text>> : text \in ExcTexts} \cup {<<TRUE, "">>}

NextAgent ==
  \/ ClientStep
  \/ AgentStep
  \/ \E r \in Raising :
       used.inits < MaxInits /\ agent.ret.kind = "idle"
         /\ AgentInitialize(r[1], r[2])
  \/ \E m \in UserMessages, r \in Raising :
       /\ agent.messages = 0
       /\ agent.initialized \/ used.inits < MaxInits
       /\ ProcessMessage(m, r[1], r[2])

SpecAgent == InitAgent /\ [][NextAgent]_vars

\* ---- the repair of arguments alone: a catalog with one tool, a map of
\* arguments, and _validate_and_fix_tool_arguments applied to the map and
\* then to what it returned.  The catalog is all that the function reads
\* of the client.
\* the schemas of a tool: none, or properties that are named as the
\* servers name them (the legacy names of the table are no properties)
RepairSchemas(tool_name) ==
  LET current == {fix.current : fix \in Fixes(tool_name)}
      P == {{}, current, current \cup {"region"}, {"region"}}
  IN {NoSchema} \cup {Schema(TRUE, p, {}) : p \in P}
                \cup {Schema(TRUE, p, p) : p \in P}

RepairTools == {CallAws, SuggestAws, SearchDocs, QualifiedName("zz", "ta")}

InitRepair ==
  /\ now = 0 /\ config = << >> /\ initialized = FALSE
  /\ loops = << >> /\ curLoop = 0
  /\ server_data = << >> /\ procs = << >> /\ tasks = << >>
  /\ threads = [t \in Threads |-> IdleThread]
  /\ used = [calls |-> 0, inits |-> 0, cleanups |-> 0]
  /\ handler = NewHandler
  /\ \E tool_name \in RepairTools, map \in ArgumentMaps :
       /\ \E schema \in RepairSchemas(tool_name) :
            tools = AddTools(<< >>, tool_name[1], 1,
                             <<ToolDef(tool_name[3], TRUE, schema)>>)
       /\ agent = [NewAgent EXCEPT
                     !.intent = Intent(TRUE, "list",
                                       <<ToolCall(tool_name, ArgMap(map))>>)]

\* the arguments of the last entry are repaired; what comes back is the
\* arguments of the next entry
Repair ==
  /\ agent.k < MaxRepairs
  /\ LET tool_call == agent.intent.tool_calls[Len(agent.intent.tool_calls)]
         v == ValidateAndFix(tools, tool_call.name, GetArguments(tool_call))
     IN agent' = [agent EXCEPT
                    !.k = @ + 1,
                    !.last_tool_calls =
                       Append(@, [name |-> tool_call.name, arguments |-> v.given]),
                    !.fixed = v.fixed,
                    !.intent.tool_calls =
                       IF v.raised THEN @
                       ELSE Append(@, ToolCall(tool_call.name, v.fixed)),
                    !.ret = AgentVal("repair",
                                     IF v.raised THEN "raise" ELSE "none", "")]
  /\ UNCHANGED threads
  /\ AgentUnchanged

SpecRepair == InitRepair /\ [][Repair]_vars

\* ---- an agent that is sent MaxMessages messages and whose history is
\* cleared between them: the intent has no tool call, one call of call_aws,
\* or an entry without a name
HistoryIntents ==
  {NoIntent,
   Intent(TRUE, "list", <<ToolCall(CallAws, ArgMap(OneArg("cli_command", 1)))>>),
   Intent(TRUE, "list", <<ToolCall(NoKey, ArgMap(OneArg("cli_command", 1)))>>)}

NextHistory ==
  \/ ClientStep
  \/ used.inits < MaxInits /\ AgentMcpInitialize
  \/ AgentMcpInitialized
  \/ \E parsed \in HistoryIntents : AgentIntent("object", parsed)
  \/ AgentTool
  \/ AgentCall
  \/ AgentResult
  \/ AgentSuggest
  \/ AgentSuggested
  \/ AgentGenerate(TRUE)
  \/ \E m \in UserMessages :
       /\ agent.messages < MaxMessages
       /\ agent.initialized \/ used.inits < MaxInits
       /\ ProcessMessage(m, TRUE, "")
  \/ ClearHistory

InitHistory == Constructed /\ config = AwsApi

SpecHistory == InitHistory /\ [][NextHistory]_vars

\* ---- a client whose initialize is called again after it raised: two
\* servers that answer as they should, when they answer; every initialize
\* comes before the cleanup, and call_tool is called after the cleanup
NextRestart ==
  \/ \E i \in DOMAIN tasks :
       \/ InitBegin(i)
       \/ \E found \in BOOLEAN : InitSpawn(i, found)
       \/ InitHandshake(i, FALSE)
       \/ InitHandshakeWake(i, FALSE)
       \/ InitHandshakeExpire(i)
       \/ InitList(i, FALSE)
       \/ InitListWake(i)
       \/ InitListExpire(i)
       \/ CleanStart(i)
       \/ CleanResume(i)
  \/ \E l \in DOMAIN loops : LoopRun(l) \/ LoopStop(l)
  \/ \E p \in DOMAIN procs :
       \/ Flush(p)
       \/ \E l \in Conforming(Incoming(p)) : ServerReply(p, l)
       \/ ServerSkip(p)
  \/ used.inits < MaxStarts /\ used.cleanups = 0 /\ Initialize("t1")
  \/ InitializeSubmit("t1")
  \/ InitializeReturn("t1")
  \/ Cleanup("t2")
  \/ CleanupStop("t2")
  \/ CleanupFinish("t2")
  \/ /\ threads["t2"].meth = "cleanup" /\ used.calls < MaxCalls
     /\ CallTool("t2", QualifiedName("s2", "ta"), "json")
  \/ Tick
  \/ Linger

InitRestart == Constructed /\ config = <<"s1", "s2">>

SpecRestart == InitRestart /\ [][NextRestart]_vars

\* SpecStop: two servers that answer as they should, when they answer, are
\* initialized once and shut down by cleanup; a registered subprocess may
\* exit by itself, exit when it is asked to terminate, or go on running
NextStop ==
  \/ \E i \in DOMAIN tasks :
       \/ InitBegin(i)
       \/ \E found \in BOOLEAN : InitSpawn(i, found)
       \/ InitHandshake(i, FALSE)
       \/ InitHandshakeWake(i, FALSE)
       \/ InitHandshakeExpire(i)
       \/ InitList(i, FALSE)
       \/ InitListWake(i)
       \/ InitListExpire(i)
       \/ CleanStart(i)
       \/ CleanResume(i)
  \/ \E l \in DOMAIN loops : LoopRun(l) \/ LoopStop(l)
  \/ \E p \in DOMAIN procs :
       \/ Flush(p)
       \/ \E l \in Conforming(Incoming(p)) : ServerReply(p, l)
       \/ ServerSkip(p)
       \/ (Ready(p) \/ procs[p].termed) /\ ServerExit(p)
  \/ used.inits < MaxInits /\ Initialize("t1")
  \/ InitializeSubmit("t1")
  \/ InitializeReturn("t1")
  \/ Cleanup("t2")
  \/ CleanupStop("t2")
  \/ CleanupFinish("t2")
  \/ Tick
  \/ Linger

InitStop == Constructed /\ config = <<"s1", "s2">>

SpecStop == InitStop /\ [][NextStop]_vars

\* ---- SpecSession: the agent of SpecHistory over a client that is cleaned
\* up once, by the agent between or after its messages or by a caller on
\* another thread at any moment
NextSession ==
  \/ NextHistory
  \/ \E i \in DOMAIN tasks : CleanStart(i) \/ CleanResume(i)
  \/ \E l \in DOMAIN loops : LoopStop(l)
  \/ AgentCleanup
  \/ AgentMcpCleanup
  \/ AgentMcpCleaned
  \/ CleanupStop(AgentThread)
  \/ CleanupFinish(AgentThread)
  \/ Cleanup("t2")
  \/ CleanupStop("t2")
  \/ CleanupFinish("t2")

InitSession == Constructed /\ config = AwsApi

SpecSession == InitSession /\ [][NextSession]_vars

\* ---- SpecBridge: process_message is run through run_async, from a
\* thread with a running loop or from one without, with the default
\* timeout; the intent has no tool call or one call of call_aws
BridgeIntents ==
  {NoIntent,
   Intent(TRUE, "list", <<ToolCall(CallAws, ArgMap(OneArg("cli_command", 1)))>>)}

\* the server aws-api comes up with the tool call_aws and answers a call
\* with a result, when it answers
BridgeReplies(req) ==
  IF req.method = "tools/list"
    THEN {Line("result", req.id, req.task, "", "",
               <<"tools", <<ToolDef("call_aws", TRUE, NoSchema)>> >>)}
    ELSE RepliesTo(req, {"result"})

NextBridge ==
  \/ \E i \in DOMAIN tasks :
       \/ InitBegin(i)
       \/ InitSpawn(i, TRUE)
       \/ InitHandshake(i, FALSE)
       \/ InitHandshakeWake(i, FALSE)
       \/ InitHandshakeExpire(i)
       \/ InitList(i, FALSE)
       \/ InitListWake(i)
       \/ InitListExpire(i)
       \/ CallStart(i, FALSE)
       \/ CallSent(i)
       \/ CallWake(i)
       \/ CallExpire(i)
  \/ \E l \in DOMAIN loops : LoopRun(l)
  \/ \E p \in DOMAIN procs :
       \/ Flush(p)
       \/ \E l \in BridgeReplies(Incoming(p)) : ServerReply(p, l)
       \/ ServerSkip(p)
  \/ InitializeSubmit(AgentThread)
  \/ InitializeReturn(AgentThread)
  \/ CallToolReturn(AgentThread)
  \/ Tick
  \/ used.inits < MaxInits /\ AgentMcpInitialize
  \/ AgentMcpInitialized
  \/ \E parsed \in BridgeIntents : AgentIntent("object", parsed)
  \/ AgentTool
  \/ AgentCall
  \/ AgentResult
  \/ AgentGenerate(TRUE)
  \/ \E running \in BOOLEAN : RunAsync(running, RunAsyncTimeout)
  \/ \E m \in UserMessages :
       /\ agent.initialized \/ used.inits < MaxInits
       /\ RunCoroutine(m, TRUE, "")
  \/ RunAsyncReturn
  \/ Switch

InitBridge == Constructed /\ config = AwsApi

SpecBridge == InitBridge /\ [][NextBridge]_vars

\* ------------------------------------------------------------------ claims
\* the calls: coroutines of _async_call_tool
Calls == {i \in DOMAIN tasks : tasks[i].kind = "call"}

\* a call is in flight: its request is written and its outcome is not there
InFlight(i) ==
  tasks[i].kind = "call" /\ tasks[i].req # NoReq /\ tasks[i].pc # "done"

\* C1: a call that returns a result returns the payload of the response to
\* its own request, a line that carries the id of that request
C1_ResultAnswersOwnRequest ==
  \A i \in Calls :
    tasks[i].fut.kind = "result" =>
      tasks[i].fut.payload = i /\ tasks[i].fut.id = tasks[i].req.id

\* C4: a call whose request is written to a registered server that is alive
\* and has put no line on its stdout since then ends with the error
\* "Tool call timeout"
C4_SilentServerTimesOut ==
  \A i \in Calls :
    ( /\ tasks[i].pc = "done" /\ tasks[i].req # NoReq
      /\ ~tasks[i].fed /\ ~procs[tasks[i].proc].eof )
      => tasks[i].fut = Error("Tool call timeout")

\* the chunks of requests of coroutine i that are in the stdin of a process
WrittenBy(i) ==
  {<<p, k>> \in ProcIds \X (1..(PipeCap + LineParts * Cardinality(TaskIds))) :
     /\ p \in DOMAIN procs /\ k <= Len(StdinStream(procs[p]))
     /\ StdinStream(procs[p])[k].line.task = i}

\* C7: a call of a tool that is not in the catalog never suspends, writes no
\* request, reads no line and ends with an error
C7_UnknownToolNeverWrites ==
  \A i \in Calls :
    tasks[i].tool \notin DOMAIN tools =>
      /\ tasks[i].pc \in {"start", "done"}
      /\ tasks[i].proc = NoProc /\ tasks[i].req = NoReq /\ tasks[i].seen = << >> /\ WrittenBy(i) = {}
      /\ tasks[i].pc = "done" => tasks[i].fut.kind \in {"error", "exc"}
      /\ \A th \in Threads :
           threads[th].pc = "call_wait" /\ threads[th].task = i
             => now < threads[th].timer \/ tasks[i].pc = "done"

\* a call of an unknown tool, with arguments that serialize, has returned
\* its error while the server of the catalog is registered
C7_Witness ==
  \E i \in Calls :
    /\ tasks[i].tool \notin DOMAIN tools /\ tools # << >>
    /\ tasks[i].args = "json"
    /\ tasks[i].fut = Error("Tool not found")
    /\ \E th \in Threads :
         threads[th].meth = "call_tool" /\ threads[th].ret = Error("Tool not found")

\* a line is a notification
IsNotification(l) == l.kind \in {"notification", "othernotification"}

\* the lines a call has read that are not notifications
Responses(i) == SelectSeq(tasks[i].seen, LAMBDA l : ~IsNotification(l))

\* C8: a call that has read a notification ends with the outcome of the
\* response that follows the notifications, or with the error of the
\* secondary timeout when no response came
C8_NotificationsSkipped ==
  \A i \in Calls :
    ( /\ tasks[i].pc = "done" /\ tasks[i].seen # << >>
      /\ IsNotification(tasks[i].seen[1]) )
      => IF Responses(i) # << >>
           THEN tasks[i].fut = SecondLine(Responses(i)[1])
           ELSE tasks[i].fut =
                  Error("Timeout waiting for response after notification")

\* C9: two calls in flight on the same process carry different ids
C9_InFlightIdsDiffer ==
  \A i, j \in Calls :
    ( /\ i # j /\ InFlight(i) /\ InFlight(j)
      /\ tasks[i].proc = tasks[j].proc )
      => tasks[i].req.id # tasks[j].req.id

\* how a handshake ends when it fails: no line (end of file, a reader
\* refused, the timeout), a line that does not parse to an object, a
\* response with an error field, a failed write
HandshakeFailures ==
  {"eof", "busy", "timeout", "reset", "garbage", "scalar", "error", "errorstr"}

\* the catalog entries that process p registered
ToolsOf(p) == {k \in DOMAIN tools : tools[k].proc = p}

\* the handshake of process p ends in this step
HandshakeEnds(p) ==
  /\ p \in DOMAIN procs /\ procs[p].hs = "none"
  /\ procs'[p].hs \in HandshakeFailures

\* C6: a process whose handshake failed has no entry in the catalog and is
\* no server record; the step in which its handshake fails leaves the
\* catalog and the server records as they are and moves the coroutine on
\* to the next server of the configuration (or to its end)
C6_FailedHandshakeIsolated ==
  /\ [](\A p \in DOMAIN procs :
          procs[p].hs \in HandshakeFailures => ToolsOf(p) = {} /\ ~Ready(p))
  /\ [][\A p \in ProcIds :
          HandshakeEnds(p) =>
            /\ tools' = tools /\ server_data' = server_data
            /\ tasks'[procs[p].task] = NextServer(tasks[procs[p].task])]_vars

\* the first server answered the initialize request with an error; the
\* second one is registered with its tool and the client is initialized
C6_Witness ==
  /\ Len(procs) = 2 /\ initialized
  /\ procs[1].hs = "error" /\ ToolsOf(1) = {} /\ ~Ready(1)
  /\ procs[2].hs = "result" /\ Ready(2)
  /\ QualifiedName("s2", "ta") \in ToolsOf(2)

\* C10: a process whose tools/list response was malformed has no entry in
\* the catalog and is a server record
C10_MalformedListNoTools ==
  \A p \in DOMAIN procs :
    procs[p].ls = "malformed" => ToolsOf(p) = {} /\ Ready(p)

\* a stream of chunks is complete request lines one after the other
WellFramed(stream) ==
  /\ Len(stream) % LineParts = 0
  /\ \A k \in 1..Len(stream) :
       /\ stream[k].part = ((k - 1) % LineParts) + 1
       /\ stream[k].line = stream[k - stream[k].part + 1].line

\* C2: what a subprocess has still to read of its stdin is complete request
\* lines one after the other, and every call runs on the one loop of the
\* client
C2_RequestLinesNotInterleaved ==
  /\ \A p \in DOMAIN procs : WellFramed(StdinStream(procs[p]))
  /\ \A i \in Calls : tasks[i].loop = curLoop /\ Len(loops) = 1

\* both threads wait for a call, and the request lines of the two calls
\* are in the stdin of the same process, the second one partly in the
\* buffer of the transport
C2_Witness ==
  /\ \A th \in Threads : threads[th].pc = "call_wait"
  /\ threads["t1"].task # threads["t2"].task
  /\ \E p \in DOMAIN procs :
       /\ procs[p].wbuf # << >>
       /\ \A th \in Threads :
            \E k \in 1..Len(StdinStream(procs[p])) :
              StdinStream(procs[p])[k].line.task = threads[th].task

\* C3: whatever call_tool gave back last to a caller is a value with the
\* key result or a value with the key error, never something raised
C3_CallToolTotal ==
  \A th \in Threads :
    threads[th].meth = "call_tool" => threads[th].ret.kind \in {"result", "error"}

\* call_tool returned the error of a client whose loop has stopped, after
\* a call whose coroutine raised
C3_Witness ==
  /\ threads["t1"].meth = "call_tool"
  /\ threads["t1"].ret = Error("MCP event loop not running")
  /\ \E i \in Calls : tasks[i].fut.kind = "exc"

\* a caller is blocked in _run_in_loop
WaitPcs == {"call_wait", "init_wait", "cl_wait"}

Waits(th) == threads[th].pc \in WaitPcs

\* the wait of thread th ends in this step although its coroutine has not
\* finished
GivesUp(th) ==
  /\ Waits(th) /\ tasks[threads[th].task].fut.kind = "pending"
  /\ threads'[th].pc \notin WaitPcs

\* what the caller gets when each of the methods gives up its wait
TimedOut(th) ==
  IF threads[th].pc = "call_wait" THEN threads'[th].ret = Error("")
  ELSE IF threads[th].pc = "init_wait" THEN threads'[th].ret = Raise("")
  ELSE threads'[th].pc = "cl_join"

\* C5: a caller blocked in _run_in_loop gets out of it; when it gets out
\* while its coroutine is unfinished, its 60 seconds are over, it gets the
\* timeout error and the coroutine is left as it is
C5_WaitTimesOut ==
  /\ \A th \in Threads : Waits(th) ~> ~Waits(th)
  /\ [][\A th \in Threads :
          GivesUp(th) =>
            /\ now = threads[th].timer
            /\ TimedOut(th)
            /\ tasks' = tasks]_vars

\* initialize raised the timeout error and the coroutine it waited for is
\* still at work: it is handling the second server
C5_Witness ==
  /\ threads["t1"].meth = "initialize" /\ threads["t1"].ret = Raise("")
  /\ \E i \in DOMAIN tasks :
       /\ tasks[i].kind = "init" /\ tasks[i].pc \notin {"start", "done"}
       /\ tasks[i].idx = 2 /\ now > RunInLoopTimeout

\* ---------------------------------------------------- claims on the agent
\* process_message has returned (or raised) and nothing was called since
MessageOver == agent.pc = "idle" /\ agent.ret.op = "process_message"

\* C11: process_message never raises: what it gives back is a reply or the
\* fallback message that the text of the exception selects, also when the
\* lazy initialize fails and when tool_calls is malformed
C11_ProcessMessageNeverRaises ==
  MessageOver =>
    /\ agent.ret.kind \in {"reply", "fallback"}
    /\ agent.ret.kind = "fallback" =>
         agent.ret.text \in {"credentials", "validation", "throttling",
                             "scheduler", "generic"}

\* C12: when the intent asks for n tool calls, process_message records one
\* outcome for each of them, in the order asked for, whatever happens to
\* one of the calls
C12_EveryCallRecorded ==
  ( /\ MessageOver /\ agent.ret.kind # "raise"
    /\ agent.intent.needs_tools /\ agent.intent.shape = "list" )
    => /\ Len(agent.tool_results) = Len(agent.intent.tool_calls)
       /\ Len(agent.last_tool_calls) = Len(agent.intent.tool_calls)
       /\ \A j \in 1..Len(agent.tool_results) :
            /\ agent.last_tool_calls[j].name = agent.intent.tool_calls[j].name
            /\ agent.tool_results[j].tool
                 \in {agent.intent.tool_calls[j].name, SuggestAws}

\* the invocations of call_tool made for entry j of tool_calls
InvokedFor(j) == SelectSeq(agent.invoked, LAMBDA inv : inv.entry = j)

\* the outcome of entry j is recorded and call_tool answered its call with
\* a validation-shaped error
ValidationFailed(j) ==
  /\ j <= Len(agent.tool_results)
  /\ InvokedFor(j) # << >>
  /\ InvokedFor(j)[1].result.kind = "error"
  /\ ValidationShaped(InvokedFor(j)[1].result.msg)

\* C13: for a call that ends with a validation-shaped error the requested
\* tool is invoked once, the suggestion tool at most once and with the
\* user's text as its query, the outcome recorded is the suggestion with
\* the reason when the suggestion tool gave a result and the error of the
\* requested call otherwise; the outcomes of the other calls are those of
\* their own invocations; every invocation counted is one call_tool made
C13_ValidationFallback ==
  /\ agent.pc \in {"tool", "generate"} =>
       used.calls - agent.calls0 = Len(agent.invoked)
  /\ \A j \in 1..Len(agent.tool_results) :
       LET tool_call == agent.intent.tool_calls[j]
           inv == InvokedFor(j)
       IN IF ValidationFailed(j)
            THEN /\ Len(inv) <= 2
                 /\ inv[1].name = tool_call.name
                 /\ Len(inv) = 2 =>
                      /\ tool_call.name # SuggestAws
                      /\ inv[2].name = SuggestAws
                      /\ inv[2].arguments = ArgMap(OneArg("query", agent.user_message))
                 /\ agent.tool_results[j] =
                      IF Len(inv) = 2 /\ inv[2].result.kind = "result"
                        THEN ToolResult(SuggestAws, inv[2].result, inv[1].result.msg)
                        ELSE ToolResult(tool_call.name, inv[1].result, "none")
            ELSE /\ Len(inv) <= 1
                 /\ agent.tool_results[j].tool = tool_call.name
                 /\ agent.tool_results[j].fallback_reason = "none"
                 /\ inv # << >> => agent.tool_results[j].result = inv[1].result

\* the first of two calls failed its validation and the suggestions are
\* recorded for it with the reason, the second call has its own result
C13_Witness ==
  /\ MessageOver /\ agent.ret.kind = "reply"
  /\ Len(agent.tool_results) = 2
  /\ agent.tool_results[1].tool = SuggestAws
  /\ agent.tool_results[1].fallback_reason = "Invalid parameters"
  /\ agent.tool_results[2].tool = CallAws
  /\ agent.tool_results[2].result.kind = "result"
  /\ Len(agent.invoked) = 3

\* C14: when the reply of the model to the intent analysis has no JSON
\* object, does not parse, or the call of the model fails, process_message
\* calls no tool and returns the answer of _generate_response
C14_UnparsedIntentRecovers ==
  /\ agent.reply \in {"nojson", "badjson", "raises"} =>
       /\ agent.pc \in {"generate", "idle"}
       /\ agent.tool_results = << >> /\ agent.last_tool_calls = << >>
       /\ agent.invoked = << >> /\ used.calls = agent.calls0
       /\ threads[AgentThread] = IdleThread
  /\ (MessageOver /\ agent.reply \in {"nojson", "badjson", "raises"}) =>
       /\ agent.ret.kind = "reply"
       /\ agent.ret.text \in {GenerateResponse(TRUE), GenerateResponse(FALSE)}

\* the call of Bedrock for the intent raised on an agent whose catalog has
\* tools, and the message is answered with the generated text
C14_Witness ==
  /\ MessageOver /\ agent.reply = "raises" /\ tools # << >>
  /\ agent.ret = AgentVal("process_message", "reply", GenerateResponse(TRUE))

\* initialize of the agent has returned (or raised) and nothing was called
\* since
InitializeOver == agent.pc = "idle" /\ agent.ret.op = "initialize"

\* C17: initialize raises when the Bedrock client cannot be created and
\* when every enabled server failed to come up; it returns, with the agent
\* initialized and the tools of the servers that came up in the catalog,
\* when the Bedrock client and at least one server came up
C17_InitializeOutcome ==
  InitializeOver =>
    IF ~agent.bedrock_client THEN agent.ret.kind = "raise"
    ELSE IF config # << >> /\ server_data = << >> THEN agent.ret.kind = "raise"
    ELSE IF server_data # << >>
      THEN /\ agent.ret.kind = "none" /\ agent.initialized /\ initialized
           /\ \A key \in DOMAIN tools : Ready(tools[key].proc)
    ELSE TRUE

\* C18: initialize of a fresh agent whose Bedrock client can be created and
\* for which no server is launched returns, the agent and the client are
\* initialized, the catalog and the server records are empty and no server
\* has a status
C18_NoServerInitializes ==
  (InitializeOver /\ agent.bedrock_client /\ procs = << >>) =>
    /\ agent.ret.kind = "none"
    /\ agent.initialized /\ initialized
    /\ tools = << >> /\ server_data = << >> /\ ServerStatus(server_data) = {}

\* initialize returned for a configuration without servers; the loop
\* thread runs and the coroutine of _async_initialize is done
C18_Witness ==
  /\ InitializeOver /\ config = << >> /\ agent.initialized /\ initialized
  /\ LoopRuns(curLoop)
  /\ \E i \in DOMAIN tasks : tasks[i].kind = "init" /\ tasks[i].pc = "done"

\* ---- the repair of arguments
\* round j of the repair: the tool, its schema, the arguments given and
\* the arguments returned
RepairTool == agent.intent.tool_calls[1].name
RepairSchema == tools[RepairTool].input_schema
RepairIn(j) == agent.intent.tool_calls[j].arguments.map
RepairOut(j) == agent.intent.tool_calls[j + 1].arguments.map

\* arguments with nothing to repair: no legacy name, and only properties
\* of the schema when it declares properties
Correct(map) ==
  /\ \A fix \in Fixes(RepairTool) : fix.legacy \notin DOMAIN map
  /\ RepairSchema.declared => DOMAIN map \subseteq RepairSchema.properties

\* the parts of C15 other than the renaming
RepairContract(j) ==
  /\ agent.ret.kind = "none"
  /\ RepairSchema.declared => DOMAIN RepairOut(j) \subseteq RepairSchema.properties
  /\ agent.last_tool_calls[j].arguments = ArgMap(RepairIn(j))
  /\ j > 1 => RepairOut(j) = RepairIn(j)
  /\ Correct(RepairIn(j)) => RepairOut(j) = RepairIn(j)

\* fix was carried out on the arguments of round j
RenamedBy(fix, j) ==
  /\ fix.legacy \notin DOMAIN RepairOut(j)
  /\ (RepairSchema.declared => fix.current \in RepairSchema.properties)
       => /\ fix.current \in DOMAIN RepairOut(j)
          /\ RepairOut(j)[fix.current] = RepairIn(j)[fix.legacy]

\* C15 as it is written: every legacy name among the arguments is renamed
\* to the current name
C15_RepairRenamesEveryAlias ==
  \A j \in 1..agent.k :
    /\ RepairContract(j)
    /\ \A fix \in Fixes(RepairTool) :
         fix.legacy \in DOMAIN RepairIn(j) => RenamedBy(fix, j)

\* C15 (amended): the repair renames a legacy name to the current name
\* when the current name is not among the arguments, returns only
\* properties of the schema when the schema declares properties, does not
\* raise when a required parameter is missing, leaves the arguments it was
\* given as they were, returns what it is given when it is given what it
\* returned, and returns correct arguments unchanged
C15_RepairContract ==
  \A j \in 1..agent.k :
    /\ RepairContract(j)
    /\ \A fix \in Fixes(RepairTool) :
         (fix.legacy \in DOMAIN RepairIn(j) /\ fix.current \notin DOMAIN RepairIn(j))
           => RenamedBy(fix, j)

\* call_aws was given command and a region its schema does not have, a
\* required parameter is missing, and the repair was applied twice
C15_Witness ==
  /\ agent.k = 2 /\ RepairTool = CallAws
  /\ RepairSchema = Schema(TRUE, {"cli_command"}, {"cli_command"})
  /\ DOMAIN RepairIn(1) = {"command", "region"}
  /\ DOMAIN RepairOut(1) = {"cli_command"}
  /\ RepairOut(2) = RepairOut(1)

\* ---- the conversation history
\* this step is the return of a process_message with a reply
Completes ==
  /\ agent.pc # "idle" /\ agent'.pc = "idle"
  /\ agent'.ret.op = "process_message" /\ agent'.ret.kind = "reply"

\* C16: the history changes only when a process_message returns its reply,
\* by one turn at its end that holds the user's text, the reply returned
\* and the tools of the outcomes recorded, and when clear_history empties
\* it, which changes nothing else of the agent and the client; a
\* process_message that returns the fallback message leaves it as it is
C16_HistoryFrame ==
  [][ /\ Completes =>
           agent'.conversation_history =
             Append(agent.conversation_history,
                    Turn(agent.user_message, agent'.ret.text,
                         [j \in 1..Len(agent.tool_results) |->
                            agent.tool_results[j].tool]))
      /\ agent'.conversation_history # agent.conversation_history =>
           \/ Completes
           \/ /\ agent'.conversation_history = << >>
              /\ agent' = [agent EXCEPT !.conversation_history = << >>]
              /\ UNCHANGED <<now, config, initialized, loops, curLoop, tools,
                             server_data, procs, tasks, threads, used>>
    ]_vars

\* the second message is answered after the suggestions were recorded for
\* its call, and the history holds the turns of both messages
C16_Witness ==
  /\ MessageOver /\ agent.messages = 2 /\ agent.ret.kind = "reply"
  /\ Len(agent.conversation_history) = 2
  /\ agent.conversation_history[2].tools_used = <<SuggestAws>>
  /\ agent.conversation_history[1].user # agent.conversation_history[2].user

\* ---- the loop thread over initialize and cleanup
\* the loop threads that exist: started and not ended
LoopThreads == {l \in DOMAIN loops : loops[l] # "stopped"}

\* C19: at every moment at most one loop thread exists, also when
\* initialize is called again after it raised or timed out
C19_OneLoopThread == Cardinality(LoopThreads) <= 1

\* cleanup has returned on a client that was initialized: it asked a loop
\* to stop
StopReturned ==
  /\ threads["t2"].pc = "idle"
  /\ \E l \in DOMAIN loops : loops[l] \in {"stopping", "stopped"}

\* C20: after cleanup returned on an initialized client every server
\* stored was asked to shut down, the server records and the catalog are
\* empty, no loop runs, and a call_tool made afterwards returns the
\* not-initialized error without a coroutine being submitted
C20_StopLeavesNothing ==
  StopReturned =>
    /\ \A p \in DOMAIN procs : procs[p].ls # "none" => procs[p].stdinClosed
    /\ server_data = << >> /\ tools = << >>
    /\ LoopThreads = {}
    /\ ~initialized
    /\ threads["t2"].meth = "call_tool" =>
         /\ threads["t2"].ret = Error("MCP client not initialized")
         /\ \A i \in DOMAIN tasks : tasks[i].kind # "call"

\* ---- shutdown of the subprocesses
\* the coroutine _async_cleanup of task i ends in this step
ShutdownEnds(i) ==
  /\ i \in DOMAIN tasks /\ tasks[i].kind = "cleanup"
  /\ tasks[i].pc # "done" /\ tasks'[i].pc = "done"

\* C21: when the shutdown coroutine ends, the subprocess of every server
\* that was registered when it ran has exited: one that did not exit in the
\* 2 seconds after terminate() was killed, and one that had exited before
\* did not keep the others from being shut down
C21_ShutdownClosesEveryServer ==
  [][\A i \in DOMAIN tasks :
       ShutdownEnds(i) =>
         \A j \in DOMAIN server_data : procs'[server_data[j].proc].eof]_vars

\* ---- subprocesses of failed initializations
\* no coroutine of _async_initialize is running
NoInitialization ==
  \A i \in DOMAIN tasks : tasks[i].kind = "init" => tasks[i].pc = "done"

\* C27: while no initialization is in progress every subprocess the client
\* spawned and that still runs is the process of a server record: the
\* subprocess of a server whose initialization failed was destroyed
C27_FailedServerDestroyed ==
  NoInitialization =>
    \A p \in DOMAIN procs : ~procs[p].eof => Ready(p)

\* ---- the client while it is not initialized
\* no caller thread is inside initialize, call_tool or cleanup
NoCaller == \A th \in Threads : threads[th].pc = "idle"

\* C28: while no caller is inside a method of the client, a client whose
\* _initialized flag is false has no server record, an empty catalog and no
\* loop thread
C28_UninitializedIsEmpty ==
  (NoCaller /\ ~initialized) =>
    /\ server_data = << >> /\ tools = << >>
    /\ LoopThreads = {}

\* ---- a call that fails on a registered server
\* the call of coroutine i ends in this step with an error (a timeout is
\* the error "Tool call timeout") after it was sent to a registered server
CallFails(i) ==
  /\ tasks[i].pc # "done" /\ tasks'[i].pc = "done"
  /\ tasks'[i].fut.kind = "error"
  /\ tasks[i].req # NoReq /\ Ready(tasks[i].proc)

\* call j, made after call i for the same tool, has been dispatched to the
\* process call i was sent to
DispatchedAfter(i, j) ==
  /\ i < j /\ tasks[j].tool = tasks[i].tool
  /\ tasks[j].args # "unserializable" /\ tasks[j].pc # "start"

\* C26: the step in which a call to a registered server ends in an error
\* or a timeout leaves the server records and the catalog as they were and
\* neither closes the stdin of the subprocess nor terminates it; the server
\* is still registered, and a call made afterwards for the same tool goes to
\* the same subprocess
C26_FailedCallLeavesServer ==
  [][\A i \in Calls :
       /\ CallFails(i) =>
            /\ server_data' = server_data /\ tools' = tools
            /\ procs'[tasks[i].proc].termed = procs[tasks[i].proc].termed
            /\ procs'[tasks[i].proc].stdinClosed = procs[tasks[i].proc].stdinClosed
            /\ Ready(tasks[i].proc)'
       /\ \A j \in Calls :
            ( /\ tasks[i].pc = "done" /\ tasks[i].fut.kind = "error"
              /\ tasks[i].req # NoReq /\ DispatchedAfter(i, j) )
              => tasks[j].proc = tasks[i].proc]_vars

\* a call to a registered server timed out, and the call made after it for
\* the same tool is written to the same subprocess
C26_Witness ==
  \E i, j \in Calls :
    /\ tasks[i].pc = "done" /\ tasks[i].fut = Error("Tool call timeout")
    /\ Ready(tasks[i].proc)
    /\ DispatchedAfter(i, j) /\ tasks[j].req # NoReq
    /\ tasks[j].proc = tasks[i].proc

\* ---- the order of the requests of a message
\* the events of a message so far: the request of the intent analysis
\* first, then call_tool invocations, made only when the analysis said
\* needs_tools, and nothing after the request of the reply
InOrder(events, needs_tools) ==
  \A k \in DOMAIN events :
    /\ events[k] = "intent" <=> k = 1
    /\ events[k] = "reply" => k = Len(events)
    /\ events[k] = "tool" => needs_tools

\* the events of a message that went through all its steps: they end with
\* the one request of the reply
Complete(events, needs_tools) ==
  /\ InOrder(events, needs_tools)
  /\ Len(events) >= 2 /\ events[Len(events)] = "reply"

\* C25: every process_message makes exactly one request for the intent
\* analysis before any call_tool, invokes tools only if the analysis said
\* needs_tools, and makes exactly one request for the reply after the last
\* invocation
C25_EveryMessageInOrder ==
  MessageOver => Complete(agent.events, agent.intent.needs_tools)

\* C25 as amended: the events of a message are in order at every moment,
\* and those of a process_message that returned a reply are complete
C25_ReplyInOrder ==
  /\ InOrder(agent.events, agent.intent.needs_tools)
  /\ (MessageOver /\ agent.ret.kind = "reply")
       => Complete(agent.events, agent.intent.needs_tools)

\* a message returned its reply after two call_tool invocations
C25_Witness ==
  /\ MessageOver /\ agent.ret.kind = "reply"
  /\ agent.events = <<"intent", "tool", "tool", "reply">>

\* ---- the agent after its cleanup
\* C29: as long as the client is stopped by nobody but the agent, an agent
\* whose _initialized flag is true and that is not inside its cleanup has
\* a tool client that is initialized, and no call_tool of a message is
\* answered "MCP client not initialized"
C29_AgentInitializedClientToo ==
  threads["t2"] = IdleThread =>
    /\ (agent.initialized /\ agent.pc # "mcp_cleanup") => initialized
    /\ \A j \in DOMAIN agent.invoked :
         agent.invoked[j].result # Error("MCP client not initialized")

\* ---- reads of the catalog and mutations of it
\* a coroutine that writes _server_data and tools is under way
MutationWindow ==
  \E i \in DOMAIN tasks :
    tasks[i].kind \in {"init", "cleanup"} /\ tasks[i].pc # "done"

\* this step is one of a coroutine on its loop thread
OnLoopThread ==
  /\ threads' = threads /\ agent' = agent
  /\ \E i \in DOMAIN tasks :
       /\ tasks[i].kind \in {"init", "cleanup"} /\ tasks'[i] # tasks[i]
       /\ LoopRuns(tasks[i].loop)

\* in this step the thread of the agent reads the catalog: it lists the
\* tools for the intent analysis or looks a schema up for the repair
CatalogRead ==
  /\ agent' # agent
  /\ \/ agent.pc = "intent"
     \/ agent.pc = "tool" /\ agent.k <= Len(agent.intent.tool_calls)

\* C24: _server_data and tools are written on the loop thread only, and the
\* thread of the agent never reads the catalog while a coroutine that
\* writes them (_async_initialize, _async_cleanup) is under way
C24_NoReadDuringMutation ==
  [][/\ (tools' # tools \/ server_data' # server_data) => OnLoopThread
     /\ CatalogRead => ~MutationWindow]_vars

\* ---- the bridge
\* run_async gives up in this step: it returns to its caller while the
\* coroutine is not over
BridgeGivesUp ==
  /\ handler.pc # "idle" /\ handler'.pc = "idle"
  /\ ~Done(handler.handed)

\* C22: on either path the caller of run_async is not blocked beyond the
\* timeout it passed: when the coroutine is not over by then, run_async
\* raises TimeoutError at that moment
C22_TimeoutOnEveryPath ==
  [][/\ handler'.pc # "idle" => now' <= handler'.deadline
     /\ BridgeGivesUp =>
          handler'.ret = "TimeoutError" /\ now = handler.deadline]_vars

\* run_async begins in this step
BridgeBegins == handler.pc = "idle" /\ handler'.pc # "idle"

\* C23: run_async called without a running loop neither creates the
\* executor nor submits to it, runs the coroutine on the caller's thread
\* and returns only when it is over, with what it gave; called with a
\* running loop it creates the executor if there is none and submits the
\* coroutine to it; nothing else creates the executor or submits to it
C23_PoolOnlyUnderRunningLoop ==
  [][/\ (BridgeBegins /\ ~handler'.running) =>
          /\ handler'.pc = "direct"
          /\ handler'.executor = handler.executor
          /\ handler'.pooled = handler.pooled
     /\ (BridgeBegins /\ handler'.running) =>
          /\ handler'.pc = "wait"
          /\ handler'.executor /\ handler'.pooled = handler.pooled + 1
     /\ (handler.pc = "direct" /\ handler'.pc = "idle") =>
          /\ Done(handler.handed)
          /\ handler'.ret = Outcome(handler.handed)
     /\ ~BridgeBegins =>
          /\ handler'.executor = handler.executor
          /\ handler'.pooled = handler.pooled
     /\ handler'.handed # handler.handed => BridgeBegins]_vars

\* run_async returned the result of a coroutine it ran without a running
\* loop, and there is no executor
C23_Witness ==
  /\ handler.pc = "idle" /\ handler.ret = "result"
  /\ ~handler.running /\ ~handler.executor /\ handler.handed = 1
  /\ agent.conversation_history # << >>

\* ---- process_message on two worker threads
\* the calls a message asks for: the entries of tool_calls, when the
\* analysis said needs_tools
Requested(intent) ==
  IF ~intent.needs_tools THEN << >>
  ELSE [j \in 1..Len(intent.tool_calls) |->
          [name |-> intent.tool_calls[j].name,
           arguments |-> GetArguments(intent.tool_calls[j])]]

\* the process_message that was begun last returns in this step
Returns ==
  /\ agent.pc # "idle" /\ agent'.pc = "idle" /\ agent'.other = agent.other
  /\ agent'.ret.op = "process_message" /\ agent'.ret.kind # "raise"
  /\ agent.user_message = Msg(agent.messages)

\* C30: when a process_message returns, _last_tool_calls holds the calls
\* that message asked for, in order, and the turn it appended to the
\* history names the outcomes of that message, also while an abandoned
\* process_message runs on the other worker
C30_RecordOfThisMessage ==
  [][Returns =>
       /\ agent'.last_tool_calls = Requested(agent.intent)
       /\ agent'.ret.kind = "reply" =>
            agent'.conversation_history =
              Append(agent.conversation_history,
                     Turn(agent.user_message, agent'.ret.text,
                          ToolsUsed(agent.tool_results)))]_vars

====
